---- MODULE Spec2Model ----
(***************************************************************************)
(* Research Lab Manager (src/app.py): the relational store behind the      *)
(* menu handlers of MemberManager, ProjectManager and EquipmentManager,    *)
(* and the handlers themselves.  Every handler issues its statements       *)
(* through QueryExecutor, one transaction per statement, committed when    *)
(* the statement raised no error.                                          *)
(*                                                                         *)
(* The tables are sets of rows.  The schema (keys, foreign keys and their  *)
(* delete rules) is not part of src/app.py; it is taken from sections 2,   *)
(* 3 and 6 of the specification.  Columns no property reads (JoinDate,     *)
(* EDuration, EType, PDate, grant and publication attributes) are left     *)
(* out of the rows.                                                        *)
(***************************************************************************)
EXTENDS Integers, Sequences, FiniteSets, TLC

(* ------------------------------ bounds -------------------------------- *)
MaxMembers == 2
MaxProjects == 2
MaxEquipment == 1
MaxDate == 1
MaxTeamProjects == 1
MaxLinks == 3
MaxCascLinks == 2
MaxStoredLinks == 2
MaxAuthors == 3
MaxPubs == 3
MaxPeriodDate == 4
MaxFunded == 2
MaxProlific == 4
MaxProlificPubs == 1
MaxStudents == 8
MaxMentored == 3

(* ------------------------- program constants -------------------------- *)
NULL == -1
(* float("nan"), and text that float() refuses with ValueError *)
NaN == -2
NotANumber == -3
MinHours == 0
MaxHours == 168
MTypes == {"Faculty", "Student", "Collaborator"}
Levels == {"Freshman", "Sophomore", "Junior", "Senior", "Graduate"}
Statuses == {"Active", "Completed", "Paused"}
EStatuses == {"Available", "In Use", "Retired"}
UsageCapacity == 3

(* ------------------------------ inputs -------------------------------- *)
Names == {"Ann", "Bob"}
Depts == {"CS", "EE"}
Sids == {"S1"}
LevelInputs == {"Junior", "Graduate"}
Majors == {"Physics", "Math"}
Affils == {"MIT", "ETH"}
Bios == {"", "bio"}
Titles == {"T1", "T2"}
Roles == {"dev", "lead"}
Purposes == {"scan", "test"}
ENames == {"Scope", "Laser"}
Dates == 0..MaxDate
MidInputs == 1..(MaxMembers + 1)
PidInputs == 1..(MaxProjects + 1)
EidInputs == 1..(MaxEquipment + 1)
SeedGrants == {1, 2}
SeedPublications == {1, 2}
HoursRaw ==
  {<<>>, <<0>>, <<168>>, <<169, 40>>, <<-5>>, <<NotANumber, 40>>, <<NaN>>}

VARIABLES today, lab_member, faculty, student, collaborator, project, works,
          equipment, uses, grant_table, funds, publication, publishes,
          mentors, seq_mid, seq_pid, seq_eid, pc, frame,
          peer_pc, connection, out

tables == <<lab_member, faculty, student, collaborator, project, works,
            equipment, uses, grant_table, funds, publication, publishes,
            mentors>>
seqs == <<seq_mid, seq_pid, seq_eid>>
vars == <<today, tables, seqs, pc, frame, peer_pc, connection,
          out>>

memberTables == <<lab_member, faculty, student, collaborator>>
seedTables == <<grant_table, publication>>

(* What the handler did last: the operation, the kind of message it        *)
(* printed (print_success / print_error / print_warning / print_info, or   *)
(* "none" when it returned silently) and the effect its statements had on  *)
(* the store ("insert", "update", "delete", or "none" when no row changed).*)
Out(op, status, effect) == [op |-> op, status |-> status, effect |-> effect]

(* ------------------------------ clients ------------------------------- *)
(* Two clients run the program against the same store; pc is the position  *)
(* of the first in its handler and peer_pc that of the second ("menu"      *)
(* between handlers).  A handler is a sequence of steps, one for each      *)
(* statement it issues through QueryExecutor together with the prompts     *)
(* read before it: every statement is a transaction of its own, and while  *)
(* a client waits at a prompt the other client acts and the day changes.   *)
(* frame[client] holds the local variables a handler keeps from one        *)
(* statement to the next.                                                  *)
Clients == {1, 2}

At(client) == IF client = 1 THEN pc ELSE peer_pc

Goto(client, position) ==
  IF client = 1 THEN pc' = position /\ UNCHANGED peer_pc
  ELSE peer_pc' = position /\ UNCHANGED pc

Idle == [op |-> "none"]
NoFrames == [client \in Clients |-> Idle]

Step(client, from, to, locals) ==
  /\ At(client) = from
  /\ Goto(client, to)
  /\ frame' = [frame EXCEPT ![client] = locals]
  /\ UNCHANGED <<today, connection>>

(* ------------------------------ schema -------------------------------- *)
MemberExists(mid) == \E m \in lab_member : m.mid = mid
ProjectExists(pid) == \E p \in project : p.pid = pid
EquipmentExists(eid) == \E e \in equipment : e.eid = eid
GrantExists(gid) == \E g \in grant_table : g.gid = gid
PublicationExists(pubid) == \E p \in publication : p.pubid = pubid

MemberRow(mid) == CHOOSE m \in lab_member : m.mid = mid

(* What the storage accepts: a row whose references exist and whose key   *)
(* is new (WORKS is written by an upsert, which has no key conflict).      *)
WorksInsertOk(mid, pid) == MemberExists(mid) /\ ProjectExists(pid)
ProjectInsertOk(leader) == MemberExists(leader)
UsesInsertOk(mid, eid, sdate) ==
  /\ MemberExists(mid)
  /\ EquipmentExists(eid)
  /\ ~\E u \in uses : u.mid = mid /\ u.eid = eid /\ u.sdate = sdate

(* The rows that reference a member, a project, an equipment. *)
MemberLinks(mid) ==
  {w \in works : w.mid = mid} \cup {u \in uses : u.mid = mid}
  \cup {a \in publishes : a.mid = mid}
  \cup {r \in mentors : r.mentor = mid \/ r.mentee = mid}
ProjectLinks(pid) ==
  {w \in works : w.pid = pid} \cup {f \in funds : f.pid = pid}
EquipmentLinks(eid) == {u \in uses : u.eid = eid}
DeleteEffect(links) == IF links = {} THEN "delete" ELSE "cascade"

(* u.EDate IS NULL OR u.EDate >= CURRENT_DATE *)
IsActive(u) == u.edate = NULL \/ u.edate >= today
ActiveUses(eid) == {u \in uses : u.eid = eid /\ IsActive(u)}

(* DELETE FROM LAB_MEMBER: the rows of every table that reference the      *)
(* member go with it; a project the member led keeps its row and loses     *)
(* its leader.                                                             *)
DeleteMemberCascade(mid) ==
  /\ lab_member' = {m \in lab_member : m.mid # mid}
  /\ faculty' = {r \in faculty : r.mid # mid}
  /\ student' = {r \in student : r.mid # mid}
  /\ collaborator' = {r \in collaborator : r.mid # mid}
  /\ works' = {w \in works : w.mid # mid}
  /\ uses' = {u \in uses : u.mid # mid}
  /\ publishes' = {a \in publishes : a.mid # mid}
  /\ mentors' = {r \in mentors : r.mentor # mid /\ r.mentee # mid}
  /\ project' = {IF p.leader = mid THEN [p EXCEPT !.leader = NULL] ELSE p :
                   p \in project}
  /\ UNCHANGED <<equipment, funds, seedTables>>

(* DELETE FROM PROJECT: its WORKS and FUNDS rows go with it. *)
DeleteProjectCascade(pid) ==
  /\ project' = {p \in project : p.pid # pid}
  /\ works' = {w \in works : w.pid # pid}
  /\ funds' = {f \in funds : f.pid # pid}
  /\ UNCHANGED <<memberTables, equipment, uses, seedTables, publishes, mentors>>

(* DELETE FROM EQUIPMENT with no delete rule on USES.EID. *)
DeleteEquipmentCascade_NoRule(eid) ==
  /\ equipment' = {e \in equipment : e.eid # eid}
  /\ UNCHANGED <<memberTables, project, works, uses, funds, seedTables,
                 publishes, mentors>>

(* DELETE FROM EQUIPMENT: its USES rows go with it. *)
DeleteEquipmentCascade(eid) ==
  /\ equipment' = {e \in equipment : e.eid # eid}
  /\ uses' = {u \in uses : u.eid # eid}
  /\ UNCHANGED <<memberTables, project, works, funds, seedTables, publishes,
                 mentors>>

(* --------------------------- MemberManager ---------------------------- *)
DetailInputs(mtype) ==
  IF mtype = "Faculty" THEN {[dept |-> d] : d \in Depts \cup {""}}
  ELSE IF mtype = "Student"
    THEN [sid : Sids \cup {""}, level : LevelInputs \cup {""},
          major : Majors \cup {""}]
  ELSE IF mtype = "Collaborator" THEN [affil : Affils \cup {""}, bio : Bios]
  ELSE {[none |-> ""]}

(* The detail statement of add_member: TRUE when the prompts were answered *)
(* and the INSERT was issued.                                              *)
DetailIssued(mtype, d) ==
  IF mtype = "Faculty" THEN d.dept # ""
  ELSE IF mtype = "Student" THEN d.sid # "" /\ d.level # "" /\ d.major # ""
  ELSE d.affil # ""

(* add_member up to its first statement: the name and the type are read    *)
(* ("" when input ended) and INSERT INTO LAB_MEMBER ... RETURNING MID is   *)
(* issued and committed; ok1 tells whether it went through.  The handler   *)
(* keeps the new MID and the type for the detail prompts.                  *)
add_member(client, name, mtype, ok1) ==
  LET mid == seq_mid + 1
      stops == name = "" \/ mtype = "" \/ ~ok1
  IN /\ Step(client, "menu", IF stops THEN "menu" ELSE "add_member",
             IF stops THEN Idle ELSE [mid |-> mid, mtype |-> mtype])
     /\ UNCHANGED <<seq_pid, seq_eid, faculty, student, collaborator, project,
                    works, equipment, uses, funds, seedTables, publishes,
                    mentors>>
     /\ IF name = "" \/ mtype = ""
          THEN /\ UNCHANGED <<lab_member, seq_mid>>
               /\ out' = Out("add_member", "none", "none")
        ELSE IF ~ok1
          THEN /\ UNCHANGED <<lab_member, seq_mid>>
               /\ out' = Out("add_member", "error", "none")
        ELSE /\ seq_mid' = mid
             /\ lab_member' = lab_member \cup
                                {[mid |-> mid, name |-> name, mtype |-> mtype]}
             /\ out' = Out("add_member", "none", "insert")

(* add_member from the detail prompts on: the INSERT into the detail table *)
(* of the type is issued when the prompts were answered; ok2 tells whether *)
(* the storage raised no error of its own, and the row is refused when the *)
(* member it references is no longer there.                                *)
add_member_detail(client, d, ok2) ==
  LET mid == frame[client].mid
      mtype == frame[client].mtype
      success2 == DetailIssued(mtype, d) /\ ok2 /\ MemberExists(mid)
  IN /\ Step(client, "add_member", "menu", Idle)
     /\ UNCHANGED <<seqs, lab_member, project, works, equipment, uses, funds,
                    seedTables, publishes, mentors>>
     /\ faculty' = IF mtype = "Faculty" /\ success2
                     THEN faculty \cup {[mid |-> mid, dept |-> d.dept]}
                     ELSE faculty
     /\ student' = IF mtype = "Student" /\ success2
                     THEN student \cup {[mid |-> mid, sid |-> d.sid,
                            level |-> d.level, major |-> d.major]}
                     ELSE student
     /\ collaborator' =
          IF mtype = "Collaborator" /\ success2
            THEN collaborator \cup {[mid |-> mid, affil |-> d.affil,
                                     bio |-> d.bio]}
            ELSE collaborator
     /\ out' = IF success2 THEN Out("add_member", "success", "insert")
               ELSE Out("add_member", "warning", "none")

(* The prompts update_member shows for choice 2 depend on the MType the    *)
(* SELECT returned; a field that is not prompted stays "".                 *)
UpdateInputs(mtype, choice) ==
  IF choice = 1 THEN {[name |-> n] : n \in Names \cup {""}}
  ELSE IF choice = 2
    THEN [dept : IF mtype = "Faculty" THEN Depts \cup {""} ELSE {""},
          level : IF mtype = "Student" THEN LevelInputs \cup {""} ELSE {""},
          major : IF mtype = "Student" THEN Majors \cup {""} ELSE {""},
          affil : IF mtype = "Collaborator" THEN Affils \cup {""} ELSE {""}]
  ELSE {[none |-> ""]}

(* update_member up to its SELECT: the member is looked up (found tells    *)
(* whether the SELECT raised no error) and its MType is kept.              *)
update_member(client, mid, found) ==
  LET hit == found /\ MemberExists(mid)
  IN /\ Step(client, "menu", IF hit THEN "update_member" ELSE "menu",
             IF hit THEN [mid |-> mid, mtype |-> MemberRow(mid).mtype]
             ELSE Idle)
     /\ UNCHANGED <<tables, seqs>>
     /\ out' = Out("update_member", IF hit THEN "none" ELSE "error", "none")

(* UPDATE FACULTY ... as INSERT ... ON CONFLICT (MID) DO UPDATE, the form  *)
(* _assign_team uses for WORKS.                                            *)
SetDepartment_Upsert(mid, dept) ==
  {r \in faculty : r.mid # mid} \cup
    (IF MemberExists(mid) THEN {[mid |-> mid, dept |-> dept]} ELSE {})

(* UPDATE FACULTY SET Department = %s WHERE MID = %s *)
SetDepartment(mid, dept) ==
  {IF r.mid = mid THEN [r EXCEPT !.dept = dept] ELSE r : r \in faculty}

(* update_member after its SELECT: choice is 1, 2 or NULL (input ended).   *)
(* The first UPDATE the answers call for is issued; ok1 tells whether it   *)
(* went through.  For a student given a level and a major that is the      *)
(* UPDATE of the level, and the UPDATE of the major is still to come.  An  *)
(* UPDATE that matches no row is no error.                                 *)
update_member_write(client, choice, u, ok1) ==
  LET mid == frame[client].mid
      mtype == frame[client].mtype
      both == choice = 2 /\ mtype = "Student" /\ u.level # "" /\ u.major # ""
  IN /\ Step(client, "update_member",
             IF both THEN "update_member_major" ELSE "menu",
             IF both THEN [mid |-> mid, mtype |-> mtype, major |-> u.major]
             ELSE Idle)
     /\ UNCHANGED <<seqs, project, works, equipment, uses, funds, seedTables,
                    publishes, mentors>>
     /\ IF choice = NULL
          THEN /\ UNCHANGED memberTables
               /\ out' = Out("update_member", "none", "none")
        ELSE IF choice = 1
          THEN /\ UNCHANGED <<faculty, student, collaborator>>
               /\ IF u.name = ""
                    THEN /\ UNCHANGED lab_member
                         /\ out' = Out("update_member", "none", "none")
                    ELSE /\ lab_member' =
                              IF ok1
                                THEN {IF m.mid = mid
                                        THEN [m EXCEPT !.name = u.name]
                                        ELSE m : m \in lab_member}
                                ELSE lab_member
                         /\ out' = IF ok1
                                     THEN Out("update_member", "success",
                                              IF MemberExists(mid)
                                                THEN "update" ELSE "none")
                                     ELSE Out("update_member", "error", "none")
        ELSE /\ UNCHANGED lab_member
             /\ faculty' = IF mtype = "Faculty" /\ u.dept # "" /\ ok1
                             THEN SetDepartment(mid, u.dept)
                             ELSE faculty
             /\ student' =
                  IF mtype = "Student" /\ ok1
                    THEN {IF r.mid = mid
                            THEN [r EXCEPT
                                   !.level = IF u.level # "" THEN u.level
                                             ELSE @,
                                   !.major = IF u.level = "" /\ u.major # ""
                                               THEN u.major ELSE @]
                            ELSE r : r \in student}
                    ELSE student
             /\ collaborator' =
                  IF mtype = "Collaborator" /\ u.affil # "" /\ ok1
                    THEN {IF r.mid = mid THEN [r EXCEPT !.affil = u.affil]
                          ELSE r : r \in collaborator}
                    ELSE collaborator
             /\ out' = Out("update_member",
                           IF both THEN "none" ELSE "success",
                           IF <<faculty, student, collaborator>>' =
                              <<faculty, student, collaborator>>
                             THEN "none" ELSE "update")

(* update_member, the second UPDATE for a student: the major.  "Details    *)
(* updated." is printed whether or not the statements went through.        *)
update_member_major(client, ok2) ==
  LET mid == frame[client].mid
      major == frame[client].major
  IN /\ Step(client, "update_member_major", "menu", Idle)
     /\ UNCHANGED <<seqs, lab_member, faculty, collaborator, project, works,
                    equipment, uses, funds, seedTables, publishes, mentors>>
     /\ student' = IF ok2
                     THEN {IF r.mid = mid THEN [r EXCEPT !.major = major]
                           ELSE r : r \in student}
                     ELSE student
     /\ out' = Out("update_member", "success",
                   IF student' = student THEN "none" ELSE "update")

(* input() of confirm_action: what is typed, or the end of input. *)
EndOfInput == "<EOF>"
Answers == {"y", "Y", " yes ", "n", "", "sure", EndOfInput}

(* .strip().lower() of the answers used here *)
StripLower(answer) ==
  CASE answer = "Y" -> "y"
    [] answer = " yes " -> "yes"
    [] OTHER -> answer

(* confirm_action: True for y and yes, False for anything else and when    *)
(* input ends.                                                             *)
confirm_action(answer) ==
  answer # EndOfInput /\ StripLower(answer) \in {"y", "yes"}

(* remove_member up to its confirmation prompt: the member is looked up    *)
(* (found tells whether the SELECT raised no error); when it is there its  *)
(* row and the warning "This will remove all associated records." are      *)
(* printed.                                                                *)
remove_member_warn(client, mid, found) ==
  LET hit == found /\ MemberExists(mid)
  IN /\ Step(client, "menu", IF hit THEN "remove_member" ELSE "menu",
             IF hit THEN [id |-> mid] ELSE Idle)
     /\ UNCHANGED <<tables, seqs>>
     /\ out' = Out("remove_member", IF hit THEN "warning" ELSE "error",
                   "none")

(* remove_member with its DELETE aimed at the detail tables instead of     *)
(* LAB_MEMBER.                                                             *)
remove_member_answer_DetailOnly(client, answer, ok) ==
  LET mid == frame[client].id
      deletes == confirm_action(answer) /\ ok
  IN /\ Step(client, "remove_member", "menu", Idle)
     /\ UNCHANGED <<seqs, lab_member, project, works, equipment, uses, funds,
                    seedTables, publishes, mentors>>
     /\ faculty' = IF deletes THEN {r \in faculty : r.mid # mid} ELSE faculty
     /\ student' = IF deletes THEN {r \in student : r.mid # mid} ELSE student
     /\ collaborator' = IF deletes THEN {r \in collaborator : r.mid # mid}
                        ELSE collaborator
     /\ out' = IF deletes THEN Out("remove_member", "success", "delete")
               ELSE Out("remove_member", "info", "none")

(* remove_member from its confirmation prompt on: the DELETE is issued     *)
(* when the answer confirms; ok tells whether it went through.  A DELETE   *)
(* that matches no row is no error.                                        *)
remove_member_answer(client, answer, ok) ==
  LET mid == frame[client].id
  IN /\ Step(client, "remove_member", "menu", Idle)
     /\ UNCHANGED seqs
     /\ IF ~confirm_action(answer)
          THEN /\ UNCHANGED tables
               /\ out' = Out("remove_member", "info", "none")
        ELSE IF ~ok
          THEN /\ UNCHANGED tables
               /\ out' = Out("remove_member", "error", "none")
        ELSE /\ DeleteMemberCascade(mid)
             /\ out' = Out("remove_member", "success",
                           IF ~MemberExists(mid) THEN "none"
                           ELSE DeleteEffect(MemberLinks(mid)))

(* --------------------------- ProjectManager --------------------------- *)
(* SELECT ... FROM LAB_MEMBER lm JOIN FACULTY f ON lm.MID = f.MID *)
FacultyList == {m \in lab_member : \E f \in faculty : f.mid = m.mid}

(* add_project up to its SELECT of the faculty: a "" title or status and a *)
(* NULL start date stand for input that ended; found tells whether the     *)
(* SELECT raised no error.  The handler keeps what was typed while it      *)
(* shows the faculty and waits for the leader.                             *)
add_project(client, title, sdate, edate, status, found) ==
  LET typed == title # "" /\ sdate # NULL /\ status # ""
      listed == typed /\ found /\ FacultyList # {}
  IN /\ Step(client, "menu", IF listed THEN "add_project" ELSE "menu",
             IF listed THEN [title |-> title, sdate |-> sdate,
                             edate |-> edate, status |-> status]
             ELSE Idle)
     /\ UNCHANGED <<tables, seqs>>
     /\ out' = Out("add_project",
                   IF typed /\ ~listed THEN "error" ELSE "none", "none")

(* add_project from the leader prompt on: leader is NULL when input ended, *)
(* any member id otherwise; ok tells whether the INSERT raised no error of *)
(* its own; assign_now is the answer to "Assign team members now?".        *)
add_project_insert(client, leader, ok, assign_now) ==
  LET pid == seq_pid + 1
      typed == frame[client]
      success == leader # NULL /\ ok /\ ProjectInsertOk(leader)
  IN /\ Step(client, "add_project",
             IF success /\ assign_now THEN "assign_team" ELSE "menu",
             IF success /\ assign_now THEN [pid |-> pid] ELSE Idle)
     /\ UNCHANGED <<seq_mid, seq_eid, memberTables, works, equipment, uses,
                    funds, seedTables, publishes, mentors>>
     /\ IF leader = NULL
          THEN /\ UNCHANGED <<project, seq_pid>>
               /\ out' = Out("add_project", "none", "none")
        ELSE IF ~success
          THEN /\ UNCHANGED <<project, seq_pid>>
               /\ out' = Out("add_project", "error", "none")
        ELSE /\ seq_pid' = pid
             /\ project' = project \cup
                  {[pid |-> pid, title |-> typed.title,
                    sdate |-> typed.sdate, edate |-> typed.edate,
                    status |-> typed.status, leader |-> leader]}
             /\ out' = Out("add_project", "success", "insert")

(* Comparison of floats as Python makes it: false whenever one side is    *)
(* NaN.                                                                    *)
FloatLess(a, b) == a # NaN /\ b # NaN /\ a < b

(* get_float_input: raw is what is typed, one entry per prompt; text that  *)
(* is no number and a value out of range are refused and the prompt        *)
(* repeats; NULL when input ends.                                          *)
RECURSIVE get_float_input(_, _, _)
get_float_input(raw, min_val, max_val) ==
  IF raw = <<>> THEN NULL
  ELSE IF Head(raw) = NotANumber
    THEN get_float_input(Tail(raw), min_val, max_val)
  ELSE IF FloatLess(Head(raw), min_val) \/ FloatLess(max_val, Head(raw))
    THEN get_float_input(Tail(raw), min_val, max_val)
  ELSE Head(raw)

(* INSERT INTO WORKS ... ON CONFLICT (MID, PID) DO UPDATE SET Role, Hours *)
UpsertWorks_DoNothing(row) ==
  IF \E w \in works : w.mid = row.mid /\ w.pid = row.pid
    THEN works ELSE works \cup {row}

UpsertWorks(row) ==
  {w \in works : ~(w.mid = row.mid /\ w.pid = row.pid)} \cup {row}

(* One turn of the loop of _assign_team for the project the caller passed: *)
(* mid is NULL (input ended) or 0 to leave the loop; an empty role or      *)
(* hours that never arrive start the next turn.                            *)
_assign_team(client, mid, role, raw, ok) ==
  LET pid == frame[client].pid
      leaves == mid = NULL \/ mid = 0
  IN /\ Step(client, "assign_team",
             IF leaves THEN "menu" ELSE "assign_team",
             IF leaves THEN Idle ELSE frame[client])
     /\ UNCHANGED <<seqs, memberTables, project, equipment, uses, funds,
                    seedTables, publishes, mentors>>
     /\ IF leaves
          THEN /\ UNCHANGED works
               /\ out' = Out("_assign_team", "none", "none")
        ELSE IF role = "" \/ get_float_input(raw, MinHours, MaxHours) = NULL
          THEN /\ UNCHANGED works
               /\ out' = Out("_assign_team", "none", "none")
        ELSE
          LET hours == get_float_input(raw, MinHours, MaxHours)
              row == [mid |-> mid, pid |-> pid, role |-> role,
                      hours |-> hours]
              success == ok /\ WorksInsertOk(mid, pid)
          IN /\ works' = IF success THEN UpsertWorks(row) ELSE works
             /\ out' = IF ~success THEN Out("_assign_team", "error", "none")
                       ELSE IF \E w \in works : w.mid = mid /\ w.pid = pid
                         THEN Out("_assign_team", "success", "update")
                       ELSE Out("_assign_team", "success", "insert")

ProjectUpdateInputs(choice) ==
  IF choice = 1 THEN {[title |-> t] : t \in Titles \cup {""}}
  ELSE IF choice = 2 THEN {[status |-> s] : s \in Statuses \cup {""}}
  ELSE IF choice = 3 THEN {[edate |-> e] : e \in Dates \cup {NULL}}
  ELSE {[none |-> ""]}

(* update_project up to its SELECT: the project is looked up; found tells  *)
(* whether the SELECT raised no error.                                     *)
update_project(client, pid, found) ==
  LET hit == found /\ ProjectExists(pid)
  IN /\ Step(client, "menu", IF hit THEN "update_project" ELSE "menu",
             IF hit THEN [pid |-> pid] ELSE Idle)
     /\ UNCHANGED <<tables, seqs>>
     /\ out' = Out("update_project", IF hit THEN "none" ELSE "error", "none")

(* update_project after its SELECT: choice is 1..5 or NULL (input ended).  *)
(* For 1, 2 and 3 the UPDATE is issued and success is printed whether or   *)
(* not it went through or matched a row (the result of execute_update is   *)
(* not read).  For 4 the statement is the SELECT of the faculty, and the   *)
(* handler goes on to the leader prompt when it returned rows.  For 5 the  *)
(* handler enters _assign_team.                                            *)
update_project_write(client, choice, v, ok) ==
  LET pid == frame[client].pid
      to == IF choice = 4 /\ ok /\ FacultyList # {}
              THEN "update_project_leader"
            ELSE IF choice = 5 THEN "assign_team"
            ELSE "menu"
  IN /\ Step(client, "update_project", to,
             IF to = "menu" THEN Idle ELSE [pid |-> pid])
     /\ UNCHANGED <<seqs, memberTables, works, equipment, uses, funds,
                    seedTables, publishes, mentors>>
     /\ IF choice = NULL \/ choice = 4 \/ choice = 5
          THEN /\ UNCHANGED project
               /\ out' = Out("update_project", "none", "none")
        ELSE
          LET issued == CASE choice = 1 -> v.title # ""
                          [] choice = 2 -> v.status # ""
                          [] choice = 3 -> TRUE
              new(p) == CASE choice = 1 -> [p EXCEPT !.title = v.title]
                          [] choice = 2 -> [p EXCEPT !.status = v.status]
                          [] choice = 3 -> [p EXCEPT !.edate = v.edate]
          IN /\ project' = IF issued /\ ok
                             THEN {IF p.pid = pid THEN new(p) ELSE p :
                                     p \in project}
                             ELSE project
             /\ out' = Out("update_project",
                           IF issued THEN "success" ELSE "none",
                           IF project' = project THEN "none" ELSE "update")

(* update_project, choice 4, from the leader prompt on: leader is NULL     *)
(* when input ended, any member id otherwise.  The UPDATE is refused when  *)
(* the leader is no member; success is printed either way.                 *)
update_project_leader(client, leader, ok) ==
  LET pid == frame[client].pid
      applies == leader # NULL /\ ok /\ ProjectInsertOk(leader)
  IN /\ Step(client, "update_project_leader", "menu", Idle)
     /\ UNCHANGED <<seqs, memberTables, works, equipment, uses, funds,
                    seedTables, publishes, mentors>>
     /\ project' = IF applies
                     THEN {IF p.pid = pid THEN [p EXCEPT !.leader = leader]
                           ELSE p : p \in project}
                     ELSE project
     /\ out' = Out("update_project",
                   IF leader # NULL THEN "success" ELSE "none",
                   IF project' = project THEN "none" ELSE "update")

(* remove_project up to its confirmation prompt: the project is looked up; *)
(* when it is there its title and the warning "This will remove all work   *)
(* assignments and funding." are printed.                                  *)
remove_project_warn(client, pid, found) ==
  LET hit == found /\ ProjectExists(pid)
  IN /\ Step(client, "menu", IF hit THEN "remove_project" ELSE "menu",
             IF hit THEN [id |-> pid] ELSE Idle)
     /\ UNCHANGED <<tables, seqs>>
     /\ out' = Out("remove_project", IF hit THEN "warning" ELSE "error",
                   "none")

(* remove_project with its DELETE aimed at WORKS instead of PROJECT. *)
remove_project_answer_WorksOnly(client, answer, ok) ==
  LET pid == frame[client].id
      deletes == confirm_action(answer) /\ ok
  IN /\ Step(client, "remove_project", "menu", Idle)
     /\ UNCHANGED <<seqs, memberTables, project, equipment, uses, funds,
                    seedTables, publishes, mentors>>
     /\ works' = IF deletes THEN {w \in works : w.pid # pid} ELSE works
     /\ out' = IF deletes THEN Out("remove_project", "success", "delete")
               ELSE Out("remove_project", "info", "none")

(* remove_project with the DELETE issued whatever the answer is. *)
remove_project_answer_Unasked(client, answer, ok) ==
  LET pid == frame[client].id
  IN /\ Step(client, "remove_project", "menu", Idle)
     /\ UNCHANGED seqs
     /\ IF ~ok
          THEN /\ UNCHANGED tables
               /\ out' = Out("remove_project", "error", "none")
          ELSE /\ DeleteProjectCascade(pid)
               /\ out' = Out("remove_project", "success",
                             IF ~ProjectExists(pid) THEN "none"
                             ELSE DeleteEffect(ProjectLinks(pid)))

(* remove_project from its confirmation prompt on. *)
remove_project_answer(client, answer, ok) ==
  LET pid == frame[client].id
  IN /\ Step(client, "remove_project", "menu", Idle)
     /\ UNCHANGED seqs
     /\ IF ~confirm_action(answer)
          THEN /\ UNCHANGED tables
               /\ out' = Out("remove_project", "info", "none")
        ELSE IF ~ok
          THEN /\ UNCHANGED tables
               /\ out' = Out("remove_project", "error", "none")
        ELSE /\ DeleteProjectCascade(pid)
             /\ out' = Out("remove_project", "success",
                           IF ~ProjectExists(pid) THEN "none"
                           ELSE DeleteEffect(ProjectLinks(pid)))

(* -------------------------- EquipmentManager -------------------------- *)
add_equipment(client, name, status, ok) ==
  /\ Step(client, "menu", "menu", Idle)
  /\ UNCHANGED <<seq_mid, seq_pid, memberTables, project, works, uses, funds,
                 seedTables, publishes, mentors>>
  /\ IF name = "" \/ status = ""
       THEN /\ UNCHANGED <<equipment, seq_eid>>
            /\ out' = Out("add_equipment", "none", "none")
     ELSE IF ~ok
       THEN /\ UNCHANGED <<equipment, seq_eid>>
            /\ out' = Out("add_equipment", "error", "none")
     ELSE /\ seq_eid' = seq_eid + 1
          /\ equipment' = equipment \cup
               {[eid |-> seq_eid + 1, name |-> name, status |-> status]}
          /\ out' = Out("add_equipment", "success", "insert")

EquipmentUpdateInputs(choice) ==
  IF choice = 1 THEN {[name |-> n] : n \in ENames \cup {""}}
  ELSE IF choice = 2 THEN {[etype |-> t] : t \in {"optics", ""}}
  ELSE IF choice = 3 THEN {[status |-> s] : s \in EStatuses \cup {""}}
  ELSE {[none |-> ""]}

(* update_equipment up to its SELECT: the equipment is looked up; found    *)
(* tells whether the SELECT raised no error.                               *)
update_equipment(client, eid, found) ==
  LET hit == found /\ EquipmentExists(eid)
  IN /\ Step(client, "menu", IF hit THEN "update_equipment" ELSE "menu",
             IF hit THEN [eid |-> eid] ELSE Idle)
     /\ UNCHANGED <<tables, seqs>>
     /\ out' = Out("update_equipment", IF hit THEN "none" ELSE "error",
                   "none")

(* update_equipment after its SELECT: choice 1 (name), 2 (type) or 3       *)
(* (status), or NULL (input ended); choice 2 rewrites EType, a column the  *)
(* rows here do not carry.  It prints success whether or not the UPDATE    *)
(* went through or matched a row.                                          *)
update_equipment_write(client, choice, v, ok) ==
  LET eid == frame[client].eid
  IN /\ Step(client, "update_equipment", "menu", Idle)
     /\ UNCHANGED <<seqs, memberTables, project, works, uses, funds,
                    seedTables, publishes, mentors>>
     /\ IF choice = NULL
          THEN /\ UNCHANGED equipment
               /\ out' = Out("update_equipment", "none", "none")
        ELSE
          LET issued == CASE choice = 1 -> v.name # ""
                          [] choice = 2 -> v.etype # ""
                          [] choice = 3 -> v.status # ""
              new(e) == CASE choice = 1 -> [e EXCEPT !.name = v.name]
                          [] choice = 2 -> e
                          [] choice = 3 -> [e EXCEPT !.status = v.status]
          IN /\ equipment' = IF issued /\ ok
                               THEN {IF e.eid = eid THEN new(e) ELSE e :
                                       e \in equipment}
                               ELSE equipment
             /\ out' = Out("update_equipment",
                           IF issued THEN "success" ELSE "none",
                           IF issued /\ ok /\ EquipmentExists(eid)
                             THEN "update" ELSE "none")

(* remove_equipment without its SELECT for the equipment. *)
remove_equipment_warn_NoLookup(client, eid, found) ==
  /\ Step(client, "menu", "remove_equipment", [id |-> eid])
  /\ UNCHANGED <<tables, seqs>>
  /\ out' = Out("remove_equipment", "warning", "none")

(* remove_equipment up to its confirmation prompt: the equipment is looked *)
(* up; when it is there its name and the warning "This will remove all     *)
(* usage records." are printed.                                            *)
remove_equipment_warn(client, eid, found) ==
  LET hit == found /\ EquipmentExists(eid)
  IN /\ Step(client, "menu", IF hit THEN "remove_equipment" ELSE "menu",
             IF hit THEN [id |-> eid] ELSE Idle)
     /\ UNCHANGED <<tables, seqs>>
     /\ out' = Out("remove_equipment", IF hit THEN "warning" ELSE "error",
                   "none")

(* remove_equipment from its confirmation prompt on. *)
remove_equipment_answer(client, answer, ok) ==
  LET eid == frame[client].id
  IN /\ Step(client, "remove_equipment", "menu", Idle)
     /\ UNCHANGED seqs
     /\ IF ~confirm_action(answer)
          THEN /\ UNCHANGED tables
               /\ out' = Out("remove_equipment", "info", "none")
        ELSE IF ~ok
          THEN /\ UNCHANGED tables
               /\ out' = Out("remove_equipment", "error", "none")
        ELSE /\ DeleteEquipmentCascade(eid)
             /\ out' = Out("remove_equipment", "success",
                           IF ~EquipmentExists(eid) THEN "none"
                           ELSE DeleteEffect(EquipmentLinks(eid)))

(* ----------------------------- queries -------------------------------- *)
(* What a query handler printed: the message kind and the rows of the      *)
(* table it printed (the empty set or sequence when it printed none).      *)
OutRows(op, status, rows) ==
  [op |-> op, status |-> status, effect |-> "none", rows |-> rows]

(* The place of a name in ORDER BY name. *)
NameRank(n) == CASE n = "Ann" -> 1 [] n = "Bob" -> 2 [] OTHER -> 3

(* The place of a status, a title or a role in ORDER BY over that column. *)
TextRank(t) ==
  CASE t \in {"Active", "T1", "dev"} -> 1
    [] t \in {"Completed", "T2", "lead"} -> 2
    [] OTHER -> 3

(* The orders in which ORDER BY may return the rows of S, key[r] being the *)
(* place of row r in the ordering: every arrangement in which no row comes *)
(* before a row with a smaller key; rows with equal keys come in any       *)
(* order.                                                                  *)
RECURSIVE OrderBy(_, _)
OrderBy(S, key) ==
  IF S = {} THEN {<<>>}
  ELSE UNION {{<<r>> \o rest : rest \in OrderBy(S \ {r}, key)} :
                r \in {x \in S : \A y \in S : key[x] <= key[y]}}

(* LIMIT n *)
Limit(s, n) == SubSeq(s, 1, IF Len(s) < n THEN Len(s) ELSE n)

(* execute_query: the statement is a SELECT; ok tells whether it raised no *)
(* error.  Nothing is written, whatever the outcome.                       *)
execute_query ==
  /\ pc = "menu"
  /\ UNCHANGED <<today, tables, seqs, pc, frame, peer_pc, connection>>

(* The NULL of a text column, as a value of the kind of the texts. *)
NullText == "<NULL>"

(* COALESCE(f.Department, s.Major, c.Affiliation) over the LEFT JOINs *)
Details(mid) ==
  IF \E f \in faculty : f.mid = mid
    THEN (CHOOSE f \in faculty : f.mid = mid).dept
  ELSE IF \E r \in student : r.mid = mid
    THEN (CHOOSE r \in student : r.mid = mid).major
  ELSE IF \E c \in collaborator : c.mid = mid
    THEN (CHOOSE c \in collaborator : c.mid = mid).affil
  ELSE NullText

list_all_members(ok) ==
  /\ execute_query
  /\ out' = IF ok
              THEN OutRows("list_all_members", "success",
                     {[mid |-> m.mid, name |-> m.name, type |-> m.mtype,
                       details |-> Details(m.mid)] : m \in lab_member})
              ELSE OutRows("list_all_members", "error", {})

(* LOWER(text) LIKE LOWER('%term%') for the terms and texts used here: the *)
(* term "%" makes the pattern '%%%', which every text matches, the empty   *)
(* one included.                                                           *)
SearchTerms == {"an", "B", "%", "zz"}
Like(term, text) ==
  \/ term = "%"
  \/ term = "an" /\ text = "Ann"
  \/ term = "B" /\ text = "Bob"

(* COALESCE(f.Department, s.Major, c.Affiliation, '') *)
DetailsOrEmpty(mid) == IF Details(mid) = NullText THEN "" ELSE Details(mid)

(* search_members: choice 1 by name, 2 by type, 3 by the detail column,    *)
(* where a member without detail row is matched as the empty text and      *)
(* shown with a NULL detail.                                               *)
search_members(choice, term, ok) ==
  /\ execute_query
  /\ IF choice = NULL \/ term = ""
       THEN out' = OutRows("search_members", "none", {})
     ELSE IF ~ok
       THEN out' = OutRows("search_members", "error", {})
     ELSE
       LET found == CASE choice = 1 ->
                           {m \in lab_member : Like(term, m.name)}
                      [] choice = 2 -> {m \in lab_member : m.mtype = term}
                      [] choice = 3 ->
                           {m \in lab_member :
                              Like(term, DetailsOrEmpty(m.mid))}
       IN out' = OutRows("search_members", "success",
                   {IF choice = 3
                      THEN [mid |-> m.mid, name |-> m.name, type |-> m.mtype,
                            details |-> Details(m.mid)]
                      ELSE [mid |-> m.mid, name |-> m.name, type |-> m.mtype] :
                    m \in found})

(* A step of a handler that only reads: the client moves on and no table   *)
(* or id counter changes.                                                  *)
ReadStep(client, from, to, locals) ==
  /\ Step(client, from, to, locals)
  /\ UNCHANGED <<tables, seqs>>

(* get_member_details up to its first SELECT: a NULL id stands for input   *)
(* that ended; the member is printed with its detail columns when the      *)
(* SELECT raised no error (ok) and returned a row.                         *)
get_member_details(client, mid, ok) ==
  LET found == mid # NULL /\ ok /\ MemberExists(mid)
      m == [mid |-> mid, name |-> MemberRow(mid).name,
            type |-> MemberRow(mid).mtype, details |-> Details(mid)]
  IN /\ ReadStep(client, "menu",
                 IF found THEN "get_member_details" ELSE "menu",
                 IF found THEN [mid |-> mid, m |-> m] ELSE Idle)
     /\ out' = IF mid = NULL THEN OutRows("get_member_details", "none", {})
               ELSE IF ~found THEN OutRows("get_member_details", "error", {})
               ELSE OutRows("get_member_details", "none", {m})

(* get_member_details, its second SELECT, a transaction of its own: the    *)
(* projects of the id typed, one line per WORKS row, ORDER BY p.Status,    *)
(* p.Title; "No projects assigned." when the SELECT raised an error (~ok2) *)
(* or returned no row.  The member printed is the row of the first SELECT. *)
get_member_details_projects(client, ok2) ==
  LET mid == frame[client].mid
      m == frame[client].m
      joined == IF ok2
                  THEN {x \in works \X project :
                          x[1].mid = mid /\ x[1].pid = x[2].pid}
                  ELSE {}
  IN /\ ReadStep(client, "get_member_details", "menu", Idle)
     /\ \E all \in OrderBy(joined,
                            [x \in joined |-> 3 * TextRank(x[2].status)
                                              + TextRank(x[2].title)]) :
          out' = OutRows("get_member_details",
                   IF joined = {} THEN "info" ELSE "success",
                   {[mid |-> m.mid, name |-> m.name, type |-> m.type,
                     details |-> m.details,
                     projects |->
                       [i \in 1..Len(all) |->
                          [title |-> all[i][2].title, role |-> all[i][1].role,
                           hours |-> all[i][1].hours,
                           status |-> all[i][2].status]]]})

(* COALESCE(lm.Name, 'Unassigned') over the LEFT JOIN on LeaderMID *)
LeaderName(p) ==
  IF MemberExists(p.leader) THEN MemberRow(p.leader).name ELSE "Unassigned"

list_all_projects(ok) ==
  /\ execute_query
  /\ out' = IF ok
              THEN OutRows("list_all_projects", "success",
                     {[pid |-> p.pid, title |-> p.title, status |-> p.status,
                       start_date |-> p.sdate, end_date |-> p.edate,
                       leader |-> LeaderName(p)] : p \in project})
              ELSE OutRows("list_all_projects", "error", {})

(* get_project_status up to its first SELECT: a NULL id stands for input   *)
(* that ended; the project is printed with the name of its leader when the *)
(* SELECT raised no error (ok) and returned a row.                         *)
get_project_status(client, pid, ok) ==
  LET found == pid # NULL /\ ok /\ ProjectExists(pid)
      p == CHOOSE x \in project : x.pid = pid
      shown == [pid |-> pid, title |-> p.title, status |-> p.status,
                leader |-> LeaderName(p)]
  IN /\ ReadStep(client, "menu",
                 IF found THEN "get_project_status" ELSE "menu",
                 IF found THEN [pid |-> pid, p |-> shown] ELSE Idle)
     /\ out' = IF pid = NULL THEN OutRows("get_project_status", "none", {})
               ELSE IF ~found THEN OutRows("get_project_status", "error", {})
               ELSE OutRows("get_project_status", "none", {shown})

(* get_project_status, its second SELECT: the team of the id typed, WORKS  *)
(* joined to LAB_MEMBER, ORDER BY w.Role; "No team members assigned." when *)
(* the SELECT raised an error (~ok2) or returned no row.                   *)
get_project_status_team(client, ok2) ==
  LET pid == frame[client].pid
      p == frame[client].p
      joined == IF ok2
                  THEN {w \in works : w.pid = pid /\ MemberExists(w.mid)}
                  ELSE {}
  IN /\ At(client) = "get_project_status"
     /\ \E all \in OrderBy(joined, [w \in joined |-> TextRank(w.role)]) :
       LET team == [i \in 1..Len(all) |->
                      [name |-> MemberRow(all[i].mid).name,
                       type |-> MemberRow(all[i].mid).mtype,
                       role |-> all[i].role, hours |-> all[i].hours]]
       IN /\ ReadStep(client, "get_project_status",
                      "get_project_status_funding",
                      [pid |-> pid, p |-> p, team |-> team])
          /\ out' = OutRows("get_project_status",
                            IF joined = {} THEN "info" ELSE "none",
                            {[pid |-> p.pid, title |-> p.title,
                              status |-> p.status, leader |-> p.leader,
                              team |-> team]})

(* get_project_status, its third SELECT: FUNDS joined to GRANT_TABLE for   *)
(* the id typed; "No funding sources." when the SELECT raised an error     *)
(* (~ok3) or returned no row.                                              *)
get_project_status_funding(client, ok3) ==
  LET pid == frame[client].pid
      p == frame[client].p
      funding == IF ok3
                   THEN {f.gid : f \in {x \in funds :
                                          x.pid = pid /\ GrantExists(x.gid)}}
                   ELSE {}
  IN /\ ReadStep(client, "get_project_status_funding", "menu", Idle)
     /\ out' = OutRows("get_project_status",
                       IF funding = {} THEN "info" ELSE "success",
                       {[pid |-> p.pid, title |-> p.title,
                         status |-> p.status, leader |-> p.leader,
                         team |-> frame[client].team,
                         funding |-> funding]})

(* show_members_by_grant up to its prompt: the grants are listed; "No      *)
(* grants found." when the SELECT raised an error (~ok) or returned no     *)
(* row.                                                                    *)
show_members_by_grant(client, ok) ==
  LET listed == ok /\ grant_table # {}
  IN /\ ReadStep(client, "menu",
                 IF listed THEN "show_members_by_grant" ELSE "menu", Idle)
     /\ out' = OutRows("show_members_by_grant",
                       IF listed THEN "none" ELSE "info",
                       IF listed THEN grant_table ELSE {})

(* SELECT DISTINCT lm.MID, lm.Name, lm.MType, p.Title, w.Role over         *)
(* GRANT_TABLE, FUNDS, PROJECT, WORKS and LAB_MEMBER joined: two projects  *)
(* of one title on which a member has one role give one row.               *)
GrantMemberRows(gid) ==
  {[mid |-> x[1].mid, name |-> MemberRow(x[1].mid).name,
    type |-> MemberRow(x[1].mid).mtype, project |-> x[2].title,
    role |-> x[1].role] :
   x \in {y \in works \X project :
            /\ y[1].pid = y[2].pid
            /\ GrantExists(gid)
            /\ [gid |-> gid, pid |-> y[2].pid] \in funds
            /\ MemberExists(y[1].mid)}}

(* show_members_by_grant from the prompt on: a NULL id stands for input    *)
(* that ended; the rows come ORDER BY p.Title, lm.Name; "No members        *)
(* found." when the SELECT raised an error (~ok2) or returned no row.      *)
show_members_by_grant_members(client, gid, ok2) ==
  LET rows == IF gid # NULL /\ ok2 THEN GrantMemberRows(gid) ELSE {}
  IN /\ ReadStep(client, "show_members_by_grant", "menu", Idle)
     /\ \E all \in OrderBy(rows, [r \in rows |-> 3 * TextRank(r.project)
                                                 + NameRank(r.name)]) :
          out' = IF gid = NULL
                   THEN OutRows("show_members_by_grant", "none", <<>>)
                   ELSE OutRows("show_members_by_grant",
                                IF rows = {} THEN "info" ELSE "success", all)

(* The rows of MENTORS whose mentor and mentee are both IN                 *)
(* (SELECT MID FROM WORKS WHERE PID = pid), joined to LAB_MEMBER twice.    *)
MentorshipRows_Either(pid) ==
  {r \in mentors :
     /\ MemberExists(r.mentor) /\ MemberExists(r.mentee)
     /\ \/ r.mentor \in {w.mid : w \in {x \in works : x.pid = pid}}
        \/ r.mentee \in {w.mid : w \in {x \in works : x.pid = pid}}}

MentorshipRows(pid) ==
  {r \in mentors :
     /\ MemberExists(r.mentor) /\ MemberExists(r.mentee)
     /\ r.mentor \in {w.mid : w \in {x \in works : x.pid = pid}}
     /\ r.mentee \in {w.mid : w \in {x \in works : x.pid = pid}}}

(* The columns selected for a mentorship: the names and types of the two   *)
(* members.                                                                *)
MentorshipLine(r) ==
  [mentor |-> MemberRow(r.mentor).name,
   mentor_type |-> MemberRow(r.mentor).mtype,
   mentee |-> MemberRow(r.mentee).name,
   mentee_type |-> MemberRow(r.mentee).mtype]

(* The table printed under "Mentorship in Project <pid>". *)
OutProjectRows(op, status, pid, rows) ==
  [op |-> op, status |-> status, effect |-> "none", project |-> pid,
   rows |-> rows]

(* show_mentorship_by_project up to its prompt: the projects are listed;   *)
(* "No projects found." when the SELECT raised an error (~ok) or returned  *)
(* no row.                                                                 *)
show_mentorship_by_project(client, ok) ==
  LET listed == ok /\ project # {}
  IN /\ ReadStep(client, "menu",
                 IF listed THEN "show_mentorship_by_project" ELSE "menu",
                 Idle)
     /\ out' = OutRows("show_mentorship_by_project",
                       IF listed THEN "none" ELSE "info",
                       IF listed
                         THEN {[pid |-> p.pid, title |-> p.title] :
                               p \in project}
                         ELSE {})

(* show_mentorship_by_project from the prompt on: a NULL id stands for     *)
(* input that ended; one line per selected mentorship, ORDER BY            *)
(* mentor.Name; "No mentorship relations found." when the SELECT raised an *)
(* error (~ok2) or returned no row.                                        *)
show_mentorship_by_project_rows(client, pid, ok2) ==
  /\ ReadStep(client, "show_mentorship_by_project", "menu", Idle)
  /\ IF pid = NULL
       THEN out' = OutRows("show_mentorship_by_project", "none", <<>>)
     ELSE IF ~ok2 \/ MentorshipRows(pid) = {}
       THEN out' = OutRows("show_mentorship_by_project", "info", <<>>)
     ELSE \E all \in OrderBy(MentorshipRows(pid),
                             [r \in MentorshipRows(pid) |->
                                NameRank(MemberRow(r.mentor).name)]) :
            out' = OutProjectRows("show_mentorship_by_project", "success", pid,
                                  [i \in DOMAIN all |-> MentorshipLine(all[i])])

(* COUNT(CASE WHEN u.EDate IS NULL OR u.EDate >= CURRENT_DATE THEN 1 END)  *)
(* over EQUIPMENT LEFT JOIN USES, GROUP BY equipment: an equipment without *)
(* USES row has one joined row, whose u.EDate is NULL and is counted.      *)
CurrentUsers(eid) ==
  IF EquipmentLinks(eid) = {} THEN 1 ELSE Cardinality(ActiveUses(eid))

(* list_all_equipment with a write added: an equipment that has current    *)
(* users is marked 'In Use'.                                               *)
list_all_equipment_Refresh(ok) ==
  /\ pc = "menu"
  /\ UNCHANGED <<today, seqs, pc, frame, peer_pc, connection, memberTables, project, works, uses,
                 funds, seedTables, publishes, mentors>>
  /\ equipment' = {IF ActiveUses(e.eid) # {}
                     THEN [e EXCEPT !.status = "In Use"] ELSE e :
                   e \in equipment}
  /\ out' = IF ok
              THEN OutRows("list_all_equipment", "success",
                     {[eid |-> e.eid, name |-> e.name, status |-> e.status,
                       current_users |-> CurrentUsers(e.eid)] :
                      e \in equipment})
              ELSE OutRows("list_all_equipment", "error", {})

(* list_all_equipment: every equipment with the count of the joined rows   *)
(* that pass the test of an active usage.                                  *)
list_all_equipment(ok) ==
  /\ execute_query
  /\ out' = IF ok
              THEN OutRows("list_all_equipment", "success",
                     {[eid |-> e.eid, name |-> e.name, status |-> e.status,
                       current_users |-> CurrentUsers(e.eid)] :
                      e \in equipment})
              ELSE OutRows("list_all_equipment", "error", {})

(* get_equipment_status up to its first SELECT: a NULL id stands for input *)
(* that ended; the equipment is printed when the SELECT raised no error    *)
(* (ok) and returned a row.                                                *)
get_equipment_status(client, eid, ok) ==
  LET found == eid # NULL /\ ok /\ EquipmentExists(eid)
  IN /\ ReadStep(client, "menu",
                 IF found THEN "get_equipment_status" ELSE "menu",
                 IF found THEN [eid |-> eid] ELSE Idle)
     /\ out' = IF eid = NULL THEN OutRows("get_equipment_status", "none", {})
               ELSE IF ~found
                 THEN OutRows("get_equipment_status", "error", {})
               ELSE OutRows("get_equipment_status", "none", {[eid |-> eid]})

(* get_equipment_status, its second SELECT: the usages of the id typed     *)
(* that are active on the day of this SELECT, joined to LAB_MEMBER, ORDER  *)
(* BY u.SDate; "No current users." when the SELECT raised an error (~ok2)  *)
(* or returned no row.                                                     *)
get_equipment_status_users(client, ok2) ==
  LET eid == frame[client].eid
      joined == IF ok2 THEN {u \in ActiveUses(eid) : MemberExists(u.mid)}
                ELSE {}
  IN /\ ReadStep(client, "get_equipment_status", "menu", Idle)
     /\ \E all \in OrderBy(joined, [u \in joined |-> u.sdate]) :
          out' = OutRows("get_equipment_status",
                   IF joined = {} THEN "info" ELSE "success",
                   {[eid |-> eid,
                     users |->
                       [i \in 1..Len(all) |->
                          [name |-> MemberRow(all[i].mid).name,
                           type |-> MemberRow(all[i].mid).mtype,
                           start_date |-> all[i].sdate,
                           purpose |-> all[i].purpose]]]})

(* show_current_users_and_projects: the current users of an equipment,     *)
(* each with the titles of the Active projects the user works on.          *)
show_current_users_and_projects(eid, ok) ==
  /\ execute_query
  /\ LET rows ==
           {[mid |-> u.mid, purpose |-> u.purpose,
             projects |->
               {p.title : p \in {x \in project :
                                   /\ x.status = "Active"
                                   /\ \E w \in works :
                                        w.mid = u.mid /\ w.pid = x.pid}}] :
            u \in {x \in ActiveUses(eid) : MemberExists(x.mid)}}
     IN out' = OutRows("show_current_users_and_projects",
                       IF ok /\ rows # {} THEN "success" ELSE "info",
                       IF ok THEN rows ELSE {})

(* --------------------------- ReportManager ---------------------------- *)
(* pub_counts: LAB_MEMBER LEFT JOIN PUBLISHES, GROUP BY member,            *)
(* COUNT(p.PubID)                                                          *)
pub_counts ==
  {[mid |-> m.mid, name |-> m.name, type |-> m.mtype,
    pub_count |-> Cardinality({p \in publishes : p.mid = m.mid})] :
   m \in lab_member}

(* ORDER BY pub_count DESC LIMIT 1 in place of the comparison with MAX. *)
MostPublishedRows_Top1 ==
  IF pub_counts = {} THEN {}
  ELSE {CHOOSE r \in pub_counts : \A q \in pub_counts : q.pub_count <= r.pub_count}

(* WHERE pub_count = (SELECT MAX(pub_count) FROM pub_counts) *)
MostPublishedRows ==
  {r \in pub_counts : \A q \in pub_counts : q.pub_count <= r.pub_count}

member_with_most_publications(ok) ==
  /\ execute_query
  /\ IF ok /\ MostPublishedRows # {}
       THEN \E rows \in OrderBy(MostPublishedRows,
                                [r \in MostPublishedRows |-> NameRank(r.name)]) :
              out' = OutRows("member_with_most_publications", "success", rows)
       ELSE out' = OutRows("member_with_most_publications", "info", <<>>)

(* The quotient cut off after the second decimal, in place of ROUND. *)
Round2_Truncate(n, d) == (100 * n) \div d

(* ROUND(n::DECIMAL / d, 2), in hundredths; d > 0, n >= 0 *)
Round2(n, d) == (200 * n + d) \div (2 * d)

(* STUDENT LEFT JOIN PUBLISHES, one row per (student, authorship) and one  *)
(* row with a NULL PubID per student without authorship.                   *)
StudentPubJoin ==
  {[mid |-> r.mid, major |-> r.major, pubid |-> p.pubid] :
     <<r, p>> \in {x \in student \X publishes : x[1].mid = x[2].mid}}
  \cup {[mid |-> r.mid, major |-> r.major, pubid |-> NULL] :
          r \in {x \in student : ~\E p \in publishes : p.mid = x.mid}}

(* GROUP BY s.Major: COUNT(DISTINCT s.MID), COUNT(p.PubID), their rounded  *)
(* quotient.                                                               *)
MajorRows ==
  {LET grp == {j \in StudentPubJoin : j.major = major}
       students == Cardinality({j.mid : j \in grp})
       total_pubs == Cardinality({j \in grp : j.pubid # NULL})
   IN [major |-> major, students |-> students, total_pubs |-> total_pubs,
       avg_pubs |-> IF students = 0 THEN NULL ELSE Round2(total_pubs, students)] :
   major \in {j.major : j \in StudentPubJoin}}

avg_publications_by_major(ok) ==
  /\ execute_query
  /\ IF ok /\ MajorRows # {}
       THEN \E rows \in OrderBy(MajorRows,
                                [r \in MajorRows |-> 0 - r.avg_pubs]) :
              out' = OutRows("avg_publications_by_major", "success", rows)
       ELSE out' = OutRows("avg_publications_by_major", "info", <<>>)

(* PROJECT p JOIN FUNDS f ON p.PID = f.PID WHERE p.SDate <= end AND        *)
(* (p.EDate IS NULL OR p.EDate >= start)                                   *)
FundedActiveJoin(start, end) ==
  {x \in project \X funds :
     /\ x[1].pid = x[2].pid
     /\ x[1].sdate <= end
     /\ (x[1].edate = NULL \/ x[1].edate >= start)}

(* the count of all joined rows, in place of COUNT(DISTINCT p.PID) *)
FundedActiveCount_All(start, end) == Cardinality(FundedActiveJoin(start, end))

(* COUNT(DISTINCT p.PID) *)
FundedActiveCount(start, end) ==
  Cardinality({x[1].pid : x \in FundedActiveJoin(start, end)})

(* funded_active_projects_in_period up to "Show details?": a NULL date     *)
(* stands for input that ended; the count is printed when the SELECT       *)
(* raised no error (ok), and nothing otherwise; the prompt comes when the  *)
(* count is positive.                                                      *)
funded_active_projects_in_period(client, start, end, ok) ==
  LET counted == start # NULL /\ end # NULL /\ ok
      count == FundedActiveCount(start, end)
      asks == counted /\ count > 0
  IN /\ ReadStep(client, "menu",
                 IF asks THEN "funded_active_projects_in_period" ELSE "menu",
                 IF asks THEN [start |-> start, end |-> end, count |-> count]
                 ELSE Idle)
     /\ out' = IF counted
                 THEN OutRows("funded_active_projects_in_period", "success",
                        {[start |-> start, end |-> end, count |-> count,
                          details |-> <<>>]})
                 ELSE OutRows("funded_active_projects_in_period", "none", {})

(* funded_active_projects_in_period from "Show details?" on: on y or yes   *)
(* the second SELECT, a transaction of its own, gives the projects that    *)
(* pass the test then, GROUP BY project with the grants of each, ORDER BY  *)
(* p.Title; no table is printed when it raised an error (~ok2) or returned *)
(* no row.                                                                 *)
funded_active_projects_in_period_details(client, answer, ok2) ==
  LET typed == frame[client]
      joined == IF confirm_action(answer) /\ ok2
                  THEN {p \in project :
                          \E x \in FundedActiveJoin(typed.start, typed.end) :
                            x[1] = p /\ GrantExists(x[2].gid)}
                  ELSE {}
  IN /\ ReadStep(client, "funded_active_projects_in_period", "menu", Idle)
     /\ \E all \in OrderBy(joined, [p \in joined |-> TextRank(p.title)]) :
          out' = OutRows("funded_active_projects_in_period", "success",
                   {[start |-> typed.start, end |-> typed.end,
                     count |-> typed.count,
                     details |->
                       [i \in 1..Len(all) |->
                          [pid |-> all[i].pid,
                           grants |-> {f.gid : f \in
                                        {y \in funds :
                                           y.pid = all[i].pid
                                           /\ GrantExists(y.gid)}}]]]})

(* The members with a WORKS row on a project that a FUNDS row links to the *)
(* grant.                                                                  *)
GrantMembers(gid) ==
  {m \in lab_member :
     \E w \in works, f \in funds :
       /\ GrantExists(gid) /\ f.gid = gid
       /\ ProjectExists(f.pid) /\ w.pid = f.pid /\ w.mid = m.mid}

(* COUNT(pub.PubID) over the joined rows, one per funded project of the    *)
(* member and authorship.                                                  *)
ProlificCount_NoDistinct(mid, gid) ==
  Cardinality({x \in works \X funds \X publishes :
                 /\ x[1].mid = mid /\ x[2].gid = gid /\ x[1].pid = x[2].pid
                 /\ x[3].mid = mid})

(* COUNT(DISTINCT pub.PubID) over the joined rows of the member *)
ProlificCount(mid, gid) ==
  Cardinality({x[3].pubid : x \in
                 {y \in works \X funds \X publishes :
                    /\ y[1].mid = mid /\ y[2].gid = gid /\ y[1].pid = y[2].pid
                    /\ y[3].mid = mid}})

ProlificRows(gid) ==
  {[mid |-> m.mid, name |-> m.name, type |-> m.mtype,
    pub_count |-> ProlificCount(m.mid, gid)] : m \in GrantMembers(gid)}

(* The table printed under "Top 3 Prolific Members for Grant <gid>". *)
OutGrantRows(op, status, gid, rows) ==
  [op |-> op, status |-> status, effect |-> "none", grant |-> gid,
   rows |-> rows]

(* prolific_members_by_grant up to its prompt: the grants are listed; "No  *)
(* grants found." when the SELECT raised an error (~ok) or returned no     *)
(* row.                                                                    *)
prolific_members_by_grant(client, ok) ==
  LET listed == ok /\ grant_table # {}
  IN /\ ReadStep(client, "menu",
                 IF listed THEN "prolific_members_by_grant" ELSE "menu", Idle)
     /\ out' = OutRows("prolific_members_by_grant",
                       IF listed THEN "none" ELSE "info",
                       IF listed THEN grant_table ELSE {})

(* prolific_members_by_grant from the prompt on: a NULL id stands for      *)
(* input that ended; ORDER BY pub_count DESC LIMIT 3; "No members found."  *)
(* when the SELECT raised an error (~ok2) or returned no row.              *)
prolific_members_by_grant_rows(client, gid, ok2) ==
  /\ ReadStep(client, "prolific_members_by_grant", "menu", Idle)
  /\ IF gid = NULL
       THEN out' = OutRows("prolific_members_by_grant", "none", <<>>)
     ELSE IF ~ok2 \/ ProlificRows(gid) = {}
       THEN out' = OutRows("prolific_members_by_grant", "info", <<>>)
     ELSE \E all \in OrderBy(ProlificRows(gid),
                             [r \in ProlificRows(gid) |-> 0 - r.pub_count]) :
            out' = OutGrantRows("prolific_members_by_grant", "success", gid,
                                Limit(all, 3))

(* list_all_publications: every publication with its authors. *)
list_all_publications(ok) ==
  /\ execute_query
  /\ out' = IF ok
              THEN OutRows("list_all_publications", "success",
                     {[pubid |-> b.pubid,
                       authors |-> {[mid |-> a.mid, name |-> MemberRow(a.mid).name] :
                                    a \in {x \in publishes :
                                             x.pubid = b.pubid
                                             /\ MemberExists(x.mid)}}] :
                      b \in publication})
              ELSE OutRows("list_all_publications", "error", {})

(* list_all_grants: every grant with the projects it funds. *)
list_all_grants(ok) ==
  /\ execute_query
  /\ out' = IF ok
              THEN OutRows("list_all_grants", "success",
                     {[gid |-> g.gid,
                       projects |-> {[pid |-> p.pid, title |-> p.title] :
                                     p \in {x \in project :
                                              [gid |-> g.gid, pid |-> x.pid]
                                                \in funds}}] :
                      g \in grant_table})
              ELSE OutRows("list_all_grants", "error", {})

(* ------------------- EquipmentManager: usage records ------------------ *)
(* SELECT ... FROM EQUIPMENT WHERE Status != 'Retired' *)
OfferedEquipment == {e \in equipment : e.status # "Retired"}

(* add_usage up to its prompts: the equipment that is not retired is       *)
(* listed; nothing is printed when the SELECT fails or returns no row.     *)
add_usage_list(client, ok) ==
  /\ Step(client, "menu", "add_usage", Idle)
  /\ UNCHANGED <<tables, seqs>>
  /\ out' = OutRows("add_usage", "none", IF ok THEN OfferedEquipment ELSE {})

(* add_usage, its first three prompts: the equipment id, the member id and *)
(* the start date, NULL for an id when input ended and for the date when   *)
(* Enter was pressed, which takes the day it is then.  Any equipment id is *)
(* taken, listed or not.                                                   *)
add_usage_start(client, eid, mid, sdate_in) ==
  LET ends == eid = NULL \/ mid = NULL
  IN /\ Step(client, "add_usage",
             IF ends THEN "menu" ELSE "add_usage_record",
             IF ends THEN Idle
             ELSE [eid |-> eid, mid |-> mid,
                   sdate |-> IF sdate_in = NULL THEN today ELSE sdate_in])
     /\ UNCHANGED <<tables, seqs>>
     /\ out' = Out("add_usage", "none", "none")

(* add_usage_record with the active records of the equipment counted in    *)
(* the transaction of the INSERT, which is refused at the limit.           *)
add_usage_record_Counted(client, edate, purpose, ok) ==
  LET typed == frame[client]
      success == /\ ok /\ UsesInsertOk(typed.mid, typed.eid, typed.sdate)
                 /\ Cardinality(ActiveUses(typed.eid)) < UsageCapacity
  IN /\ Step(client, "add_usage_record", "menu", Idle)
     /\ UNCHANGED <<seqs, memberTables, project, works, equipment, funds,
                    seedTables, publishes, mentors>>
     /\ IF purpose = ""
          THEN /\ UNCHANGED uses
               /\ out' = Out("add_usage", "none", "none")
          ELSE /\ uses' = IF success
                            THEN uses \cup {[mid |-> typed.mid,
                                   eid |-> typed.eid, sdate |-> typed.sdate,
                                   edate |-> edate, purpose |-> purpose]}
                            ELSE uses
               /\ out' = IF success THEN Out("add_usage", "success", "insert")
                         ELSE Out("add_usage", "error", "none")

(* add_usage from the end date prompt on: a NULL end date stands for an    *)
(* ongoing usage, a "" purpose for input that ended; the INSERT is issued  *)
(* with what was typed before and ok tells whether it raised no error of   *)
(* its own.                                                                *)
add_usage_record(client, edate, purpose, ok) ==
  LET typed == frame[client]
      success == ok /\ UsesInsertOk(typed.mid, typed.eid, typed.sdate)
  IN /\ Step(client, "add_usage_record", "menu", Idle)
     /\ UNCHANGED <<seqs, memberTables, project, works, equipment, funds,
                    seedTables, publishes, mentors>>
     /\ IF purpose = ""
          THEN /\ UNCHANGED uses
               /\ out' = Out("add_usage", "none", "none")
          ELSE /\ uses' = IF success
                            THEN uses \cup {[mid |-> typed.mid,
                                   eid |-> typed.eid, sdate |-> typed.sdate,
                                   edate |-> edate, purpose |-> purpose]}
                            ELSE uses
               /\ out' = IF success THEN Out("add_usage", "success", "insert")
                         ELSE Out("add_usage", "error", "none")

UsageUpdateInputs(choice) ==
  IF choice = 1 THEN {[edate |-> e] : e \in Dates \cup {NULL}}
  ELSE IF choice = 2 THEN {[purpose |-> p] : p \in Purposes \cup {""}}
  ELSE {[none |-> ""]}

(* update_usage up to its SELECT: the usages of the equipment that are     *)
(* active on the day of the SELECT are listed; found tells whether the     *)
(* SELECT raised no error.                                                 *)
update_usage(client, eid, found) ==
  LET hit == found /\ ActiveUses(eid) # {}
  IN /\ Step(client, "menu", IF hit THEN "update_usage" ELSE "menu",
             IF hit THEN [eid |-> eid] ELSE Idle)
     /\ UNCHANGED <<tables, seqs>>
     /\ out' = Out("update_usage", IF hit THEN "none" ELSE "info", "none")

(* update_usage after its SELECT: the record is named by (mid, eid, sdate) *)
(* as typed, listed or not; choice 1 ends it, choice 2 rewrites its        *)
(* purpose.  "Updated." is printed whether or not the UPDATE went through  *)
(* or matched a row.                                                       *)
update_usage_write(client, mid, sdate, choice, v, ok) ==
  LET eid == frame[client].eid
  IN /\ Step(client, "update_usage", "menu", Idle)
     /\ UNCHANGED <<seqs, memberTables, project, works, equipment, funds,
                    seedTables, publishes, mentors>>
     /\ IF mid = NULL \/ sdate = NULL \/ choice = NULL
          THEN /\ UNCHANGED uses
               /\ out' = Out("update_usage", "none", "none")
        ELSE
          LET issued == IF choice = 1 THEN v.edate # NULL ELSE v.purpose # ""
              hit(u) == u.mid = mid /\ u.eid = eid /\ u.sdate = sdate
              new(u) == IF choice = 1 THEN [u EXCEPT !.edate = v.edate]
                        ELSE [u EXCEPT !.purpose = v.purpose]
          IN /\ uses' = IF issued /\ ok
                          THEN {IF hit(u) THEN new(u) ELSE u : u \in uses}
                          ELSE uses
             /\ out' = Out("update_usage",
                           IF issued THEN "success" ELSE "none",
                           IF issued /\ ok /\ \E u \in uses : hit(u)
                             THEN "update" ELSE "none")

(* ---------------------- QueryExecutor, step by step ------------------- *)
(* connection is self.connection of the DatabaseConnection of the call in  *)
(* progress: its handle ("none" for None, "open", "closed"), whether the   *)
(* statement raised, the rows the open transaction has written and not     *)
(* yet committed, and how often commit(), rollback() and close() were      *)
(* called on it.                                                           *)
None ==
  [state |-> "none", raised |-> FALSE, work |-> {}, commits |-> 0,
   rollbacks |-> 0, closes |-> 0]

ExecutorMethods == {"execute_query", "execute_insert", "execute_update"}

(* The statements the equipment handlers pass: the listing, the INSERT     *)
(* ... RETURNING EID of add_equipment, the UPDATE of the status.           *)
Statements(method) ==
  CASE method = "execute_query" ->
         {[kind |-> "select", eid |-> 0, name |-> "", status |-> ""]}
    [] method = "execute_insert" ->
         {[kind |-> "insert", eid |-> 0, name |-> n, status |-> s] :
            n \in ENames, s \in EStatuses}
    [] method = "execute_update" ->
         {[kind |-> "update", eid |-> e, name |-> "", status |-> s] :
            e \in 1..(MaxEquipment + 1), s \in EStatuses}

(* What a call has to return: (ok, value). *)
OutCall(op, status, ok, value) ==
  [op |-> op, status |-> status, effect |-> "none", ok |-> ok,
   value |-> value]

(* The rows of EQUIPMENT as the statement leaves them. *)
Written(stmt) ==
  CASE stmt.kind = "insert" ->
         equipment \cup {[eid |-> seq_eid + 1, name |-> stmt.name,
                          status |-> stmt.status]}
    [] stmt.kind = "update" ->
         {IF e.eid = stmt.eid THEN [e EXCEPT !.status = stmt.status] ELSE e :
            e \in equipment}
    [] OTHER -> equipment

(* The value the method returns next to True: the rows fetched, the id     *)
(* RETURNING gives, or cur.rowcount.                                       *)
Returned(stmt) ==
  CASE stmt.kind = "select" -> equipment
    [] stmt.kind = "insert" -> seq_eid + 1
    [] OTHER -> Cardinality({e \in equipment : e.eid = stmt.eid})

(* with DatabaseConnection(self.config) as conn: __enter__ calls           *)
(* connect().  When psycopg2.connect raises, connect prints the error and  *)
(* raises it again; no __exit__ runs and the except clause of the method   *)
(* returns (False, message).                                               *)
DatabaseConnection_enter(method, ok) ==
  /\ pc = "menu"
  /\ UNCHANGED <<today, tables, seqs, frame, peer_pc>>
  /\ IF ok
       THEN /\ connection' = [None EXCEPT !.state = "open", !.work = equipment]
            /\ pc' = method
            /\ out' = OutCall(method, "running", TRUE, "none")
       ELSE /\ connection' = None
            /\ pc' = "menu"
            /\ out' = OutCall(method, "returned", FALSE, "error")

(* The body of the with block: cur.execute and the fetch.  A statement     *)
(* that raises writes nothing; one that does not leaves its rows           *)
(* uncommitted in the transaction.  The sequence behind EID moves outside  *)
(* the transaction.                                                        *)
execute_body(method, stmt, raises) ==
  /\ pc = method /\ method \in ExecutorMethods
  /\ pc' = "__exit__"
  /\ UNCHANGED <<today, tables, seq_mid, seq_pid, frame, peer_pc>>
  /\ IF raises
       THEN /\ connection' = [connection EXCEPT !.raised = TRUE]
            /\ out' = OutCall(method, "running", FALSE, "error")
            /\ UNCHANGED seq_eid
       ELSE /\ connection' = [connection EXCEPT !.work = Written(stmt)]
            /\ out' = OutCall(method, "running", TRUE, Returned(stmt))
            /\ seq_eid' = IF stmt.kind = "insert" THEN seq_eid + 1
                          ELSE seq_eid

(* __exit__: commit() when the body raised nothing, rollback() when it     *)
(* did, then close().  commit() and rollback() can raise themselves (the   *)
(* server gone, a deferred constraint): the error leaves __exit__ before   *)
(* close() and the except clause of the method returns (False, message).   *)
DatabaseConnection_exit(fails) ==
  /\ pc = "__exit__"
  /\ pc' = "menu"
  /\ UNCHANGED <<today, memberTables, project, works, uses, funds,
                 seedTables, publishes, mentors, seqs, frame,
                 peer_pc>>
  /\ connection' =
       [connection EXCEPT
          !.commits = IF connection.raised THEN @ ELSE @ + 1,
          !.rollbacks = IF connection.raised THEN @ + 1 ELSE @,
          !.closes = IF fails THEN @ ELSE @ + 1,
          !.state = IF fails THEN @ ELSE "closed",
          !.work = {}]
  /\ equipment' = IF connection.raised \/ fails THEN equipment
                  ELSE connection.work
  /\ out' = IF connection.raised \/ fails
              THEN OutCall(out.op, "returned", FALSE, "error")
              ELSE OutCall(out.op, "returned", TRUE, out.value)

(* ------------- link rows the handlers never write themselves ---------- *)
linkFunding(gid, pid) ==
  /\ pc = "menu"
  /\ GrantExists(gid) /\ ProjectExists(pid)
  /\ funds' = funds \cup {[gid |-> gid, pid |-> pid]}
  /\ out' = Out("linkFunding", "success", "insert")
  /\ UNCHANGED <<today, pc, frame, peer_pc, connection, seqs, memberTables, project, works,
                 equipment, uses, seedTables, publishes, mentors>>

addAuthor(mid, pubid) ==
  /\ pc = "menu"
  /\ MemberExists(mid) /\ PublicationExists(pubid)
  /\ publishes' = publishes \cup {[mid |-> mid, pubid |-> pubid]}
  /\ out' = Out("addAuthor", "success", "insert")
  /\ UNCHANGED <<today, pc, frame, peer_pc, connection, seqs, memberTables, project, works,
                 equipment, uses, funds, seedTables, mentors>>

recordMentorship(mentor, mentee) ==
  /\ pc = "menu"
  /\ mentor # mentee
  /\ MemberExists(mentor) /\ MemberExists(mentee)
  /\ mentors' = mentors \cup {[mentor |-> mentor, mentee |-> mentee]}
  /\ out' = Out("recordMentorship", "success", "insert")
  /\ UNCHANGED <<today, pc, frame, peer_pc, connection, seqs, memberTables, project, works,
                 equipment, uses, funds, seedTables, publishes>>

(* CURRENT_DATE / date.today() moves on. *)
NextDay ==
  /\ today < MaxDate
  /\ today' = today + 1
  /\ UNCHANGED <<tables, seqs, pc, frame, peer_pc, connection, out>>

(* ------------------------------ initial ------------------------------- *)
Init ==
  /\ today = 0
  /\ lab_member = {} /\ faculty = {} /\ student = {} /\ collaborator = {}
  /\ project = {} /\ works = {} /\ equipment = {} /\ uses = {}
  /\ grant_table = {[gid |-> g] : g \in SeedGrants}
  /\ publication = {[pubid |-> p] : p \in SeedPublications}
  /\ funds = {} /\ publishes = {} /\ mentors = {}
  /\ seq_mid = 0 /\ seq_pid = 0 /\ seq_eid = 0
  /\ pc = "menu" /\ frame = NoFrames /\ peer_pc = "menu"
  /\ connection = None
  /\ out = Out("start", "none", "none")

(* ----------------- the member handlers, every input ------------------- *)
AddMember ==
  /\ seq_mid < MaxMembers
  /\ \/ \E name \in Names \cup {""} : add_member(1, name, "", TRUE)
     \/ \E name \in Names, mtype \in MTypes, ok1 \in BOOLEAN :
          add_member(1, name, mtype, ok1)

AddMemberDetail ==
  /\ pc = "add_member"
  /\ \E d \in DetailInputs(frame[1].mtype) :
       \E ok2 \in IF DetailIssued(frame[1].mtype, d) THEN BOOLEAN
                  ELSE {TRUE} :
         add_member_detail(1, d, ok2)

UpdateMember ==
  \E mid \in MidInputs :
    \E found \in IF MemberExists(mid) THEN BOOLEAN ELSE {TRUE} :
      update_member(1, mid, found)

UpdateMemberWrite ==
  /\ pc = "update_member"
  /\ \E choice \in {1, 2, NULL} :
       \E u \in UpdateInputs(frame[1].mtype, choice) :
         \E ok1 \in IF choice = NULL THEN {TRUE} ELSE BOOLEAN :
           update_member_write(1, choice, u, ok1)

UpdateMemberMajor == \E ok2 \in BOOLEAN : update_member_major(1, ok2)

RemoveMember ==
  \E mid \in MidInputs :
    \E found \in IF MemberExists(mid) THEN BOOLEAN ELSE {TRUE} :
      remove_member_warn(1, mid, found)

RemoveMemberConfirm ==
  \E answer \in {"y", "n"} :
    \E ok \in IF answer = "y" THEN BOOLEAN ELSE {TRUE} :
      remove_member_answer(1, answer, ok)

NextMember ==
  \/ AddMember \/ AddMemberDetail
  \/ UpdateMember \/ UpdateMemberWrite \/ UpdateMemberMajor
  \/ RemoveMember \/ RemoveMemberConfirm

SpecMember == Init /\ [][NextMember]_vars

DetailRows(mid) ==
  Cardinality({r \in faculty : r.mid = mid})
  + Cardinality({r \in student : r.mid = mid})
  + Cardinality({r \in collaborator : r.mid = mid})

(* The member has exactly one detail row, in the table of its MType. *)
HasItsDetail(m) ==
  /\ DetailRows(m.mid) = 1
  /\ m.mtype = "Faculty" => \E r \in faculty : r.mid = m.mid
  /\ m.mtype = "Student" => \E r \in student : r.mid = m.mid
  /\ m.mtype = "Collaborator" => \E r \in collaborator : r.mid = m.mid

(* C1: when add_member returns after its INSERT into LAB_MEMBER, the store *)
(* holds the new member together with exactly one detail row, in the table *)
(* matching its type and keyed by the new member, or no row of the new     *)
(* member at all.                                                          *)
C1_MemberAtomicity ==
  [][\A client \in Clients :
       At(client) = "add_member" /\ out'.op = "add_member"
       /\ (\E ok2 \in BOOLEAN :
             \E d \in DetailInputs(frame[client].mtype) :
               add_member_detail(client, d, ok2))
       => LET mid == frame[client].mid
              base == {m \in lab_member' : m.mid = mid}
          IN \/ /\ base = {}
                /\ ~\E r \in faculty' \cup student' \cup collaborator' :
                       r.mid = mid
             \/ /\ Cardinality(base) = 1
                /\ \A m \in base : HasItsDetail(m)'
    ]_vars

(* C2: between the runs of add_member, every member is referenced by       *)
(* exactly one detail row, and that row is in the table matching the       *)
(* member's MType.                                                         *)
C2_TypeDetailExclusivity ==
  (\A client \in Clients : At(client) # "add_member")
  => \A m \in lab_member : HasItsDetail(m)

(* C26: no step changes the MType of a member that stays in the store, and *)
(* every step of update_member leaves every table with the rows of the     *)
(* same members as before: it inserts and deletes no LAB_MEMBER row and no *)
(* detail row, it changes nothing but names in LAB_MEMBER, and the detail  *)
(* rows it changes are in the table of the member's type.                  *)
C26_TypeFixed ==
  [][/\ \A m \in lab_member, n \in lab_member' :
          m.mid = n.mid => m.mtype = n.mtype
     /\ out'.op = "update_member" =>
          /\ Cardinality(lab_member') = Cardinality(lab_member)
          /\ Cardinality(faculty') = Cardinality(faculty)
          /\ Cardinality(student') = Cardinality(student)
          /\ Cardinality(collaborator') = Cardinality(collaborator)
          /\ {m.mid : m \in lab_member'} = {m.mid : m \in lab_member}
          /\ {r.mid : r \in faculty'} = {r.mid : r \in faculty}
          /\ {r.mid : r \in student'} = {r.mid : r \in student}
          /\ {r.mid : r \in collaborator'} = {r.mid : r \in collaborator}
          /\ \A r \in faculty' \ faculty :
               MemberRow(r.mid).mtype = "Faculty"
          /\ \A r \in student' \ student :
               MemberRow(r.mid).mtype = "Student"
          /\ \A r \in collaborator' \ collaborator :
               MemberRow(r.mid).mtype = "Collaborator"]_vars

(* The only member is a student with its STUDENT row, and update_member    *)
(* has just rewritten that row, the only detail row there is: the member   *)
(* is still a Student, its major now Math.                                 *)
C26_Witness ==
  /\ out = Out("update_member", "success", "update")
  /\ Cardinality(lab_member) = 1
  /\ faculty = {} /\ collaborator = {}
  /\ \E m \in lab_member :
       /\ m.mtype = "Student"
       /\ \E r \in student : r.mid = m.mid /\ r.major = "Math"

(* C14: the writes of one operation are applied in one transaction: a step *)
(* of a handler that changes the store is the last step of its run, so     *)
(* that no run commits a write and then goes on to another statement.      *)
C14_SingleTransaction ==
  [][\A client \in Clients :
       At(client)' # At(client) /\ tables' # tables
       => At(client)' = "menu"]_vars

(* -------- members for the other handlers: complete, accepted ---------- *)
FirstFaculty ==
  {m.mid : m \in {x \in FacultyList : \A y \in FacultyList : x.mid <= y.mid}}

SimpleDetail(mtype) ==
  IF mtype = "Faculty" THEN [dept |-> "CS"]
  ELSE IF mtype = "Student"
    THEN [sid |-> "S1", level |-> "Junior", major |-> "Physics"]
  ELSE [affil |-> "MIT", bio |-> ""]

(* Both statements of add_member, each accepted. *)
AddSimpleMember(types) ==
  \/ /\ seq_mid < MaxMembers
     /\ \E mtype \in types : add_member(1, "Ann", mtype, TRUE)
  \/ /\ pc = "add_member"
     /\ add_member_detail(1, SimpleDetail(frame[1].mtype), TRUE)

(* ------------------------- equipment and usage ------------------------ *)
UsageAddMember == AddSimpleMember({"Student"})

UsageAddEquipment ==
  /\ seq_eid < MaxEquipment
  /\ \E ok \in BOOLEAN : add_equipment(1, "Scope", "Available", ok)

AddUsage == add_usage_list(1, TRUE)

AddUsageStart ==
  \/ add_usage_start(1, NULL, NULL, NULL)
  \/ \E eid \in EidInputs, mid \in MidInputs, sdate \in Dates \cup {NULL} :
       add_usage_start(1, eid, mid, sdate)

AddUsageRecord ==
  /\ pc = "add_usage_record"
  /\ \/ add_usage_record(1, NULL, "", TRUE)
     \/ \E edate \in Dates \cup {NULL} :
          \E ok \in IF UsesInsertOk(frame[1].mid, frame[1].eid, frame[1].sdate)
                      THEN BOOLEAN ELSE {TRUE} :
            add_usage_record(1, edate, "scan", ok)

(* The second client updates usage while the first is at any prompt of its *)
(* handlers.                                                               *)
UpdateUsage == \E eid \in EidInputs : update_usage(2, eid, TRUE)

UpdateUsageWrite ==
  \E mid \in MidInputs, sdate \in Dates \cup {NULL} :
    \E choice \in IF sdate = NULL THEN {NULL} ELSE {1, 2, NULL} :
      \E v \in UsageUpdateInputs(choice) :
        \E ok \in IF choice = NULL THEN {TRUE} ELSE BOOLEAN :
          update_usage_write(2, mid, sdate, choice, v, ok)

NextUsage ==
  \/ UsageAddMember \/ UsageAddEquipment
  \/ AddUsage \/ AddUsageStart \/ AddUsageRecord
  \/ UpdateUsage \/ UpdateUsageWrite \/ NextDay

SpecUsage == Init /\ [][NextUsage]_vars

(* C3: each piece of equipment has at most 3 active usage records. *)
C3_UsageCapacity ==
  \A e \in equipment : Cardinality(ActiveUses(e.eid)) <= UsageCapacity

(* C4: with 3 active usage records on an equipment, the INSERT of          *)
(* add_usage with no end date or an end date not yet passed reports an     *)
(* error and inserts nothing for it; with fewer than 3, an INSERT the      *)
(* storage accepts adds its record.                                        *)
C4_CapacityExceeded ==
  [][\A client \in Clients, edate \in Dates \cup {NULL} :
       At(client) = "add_usage_record"
       /\ add_usage_record(client, edate, "scan", TRUE)
       /\ (edate = NULL \/ edate >= today)
       /\ UsesInsertOk(frame[client].mid, frame[client].eid,
                       frame[client].sdate)
       => IF Cardinality(ActiveUses(frame[client].eid)) >= UsageCapacity
            THEN uses' = uses /\ out'.status = "error"
            ELSE /\ uses' = uses \cup
                      {[mid |-> frame[client].mid, eid |-> frame[client].eid,
                        sdate |-> frame[client].sdate, edate |-> edate,
                        purpose |-> "scan"]}
                 /\ out'.status = "success"
    ]_vars

(* C13: update_usage given a value changes no record other than the one   *)
(* named by (mid, eid, sdate); when no record has that key it reports that *)
(* nothing was found (an error or an information line, never success)      *)
(* and no record changes.                                                  *)
C13_UsageTargeted ==
  [][\A client \in Clients, mid \in MidInputs, sdate \in Dates,
        choice \in {1, 2} :
       \A v \in UsageUpdateInputs(choice) :
         LET given == IF choice = 1 THEN v.edate # NULL ELSE v.purpose # ""
             hit(u) == /\ u.mid = mid /\ u.eid = frame[client].eid
                       /\ u.sdate = sdate
         IN At(client) = "update_usage" /\ out'.op = "update_usage" /\ given
            /\ update_usage_write(client, mid, sdate, choice, v, TRUE)
            => IF \E u \in uses : hit(u)
                 THEN {u \in uses' : ~hit(u)} = {u \in uses : ~hit(u)}
                 ELSE uses' = uses /\ out'.status \in {"error", "info"}
    ]_vars

(* --------------------------- team assignment -------------------------- *)
TeamAddMember == AddSimpleMember({"Faculty", "Student"})

TeamAddProject ==
  \/ /\ seq_pid < MaxTeamProjects
     /\ add_project(1, "T1", 0, NULL, "Active", TRUE)
  \/ /\ pc = "add_project"
     /\ \E leader \in FirstFaculty, assign_now \in BOOLEAN :
          add_project_insert(1, leader, TRUE, assign_now)

TeamUpdateProject ==
  \/ \E pid \in 1..(MaxTeamProjects + 1) : update_project(1, pid, TRUE)
  \/ update_project_write(1, 5, [none |-> ""], TRUE)

(* role and hours as typed at the two prompts of one round of the loop *)
AssignInputs ==
  {<<"lead", <<0>>>>, <<"dev", <<168>>>>, <<"lead", <<169, 40>>>>,
   <<"", <<0>>>>, <<"dev", <<>>>>, <<"dev", <<-5>>>>}

AssignTeam ==
  /\ pc = "assign_team"
  /\ \/ \E mid \in {NULL, 0} : _assign_team(1, mid, "", <<>>, TRUE)
     \/ \E mid \in MidInputs, in \in AssignInputs :
          /\ \/ Cardinality(works) < MaxCascLinks
             \/ \E w \in works : w.mid = mid /\ w.pid = frame[1].pid
          /\ \E ok \in IF /\ in[1] # ""
                          /\ get_float_input(in[2], MinHours, MaxHours) # NULL
                        THEN BOOLEAN ELSE {TRUE} :
               _assign_team(1, mid, in[1], in[2], ok)

NextAssign ==
  TeamAddMember \/ TeamAddProject \/ TeamUpdateProject \/ AssignTeam

SpecAssign == Init /\ [][NextAssign]_vars

(* C5: an assignment the storage accepts succeeds whether or not the pair  *)
(* is already assigned; afterwards WORKS holds exactly one row for the     *)
(* pair, with the role and hours just given, no pair has two rows, and the *)
(* rows of the other pairs are as before.                                  *)
C5_AssignUpsert ==
  [][\A client \in Clients, mid \in MidInputs,
        in \in {i \in AssignInputs : i[1] # ""} :
       LET role == in[1]
           raw == in[2]
           hours == get_float_input(raw, MinHours, MaxHours)
           pid == frame[client].pid
           same(w) == w.mid = mid /\ w.pid = pid
       IN At(client) = "assign_team" /\ out'.op = "_assign_team"
          /\ hours # NULL /\ WorksInsertOk(mid, pid)
          /\ _assign_team(client, mid, role, raw, TRUE)
          => /\ out'.status = "success"
             /\ {w \in works' : same(w)} =
                  {[mid |-> mid, pid |-> pid, role |-> role,
                    hours |-> hours]}
             /\ {w \in works' : ~same(w)} = {w \in works : ~same(w)}
             /\ \A w1, w2 \in works' :
                  w1.mid = w2.mid /\ w1.pid = w2.pid => w1 = w2
    ]_vars

(* A pair assigned before has just been assigned again, with other values. *)
C5_Witness ==
  /\ out = Out("_assign_team", "success", "update")
  /\ \E w \in works : w.role = "lead" /\ w.hours = 40
  /\ Cardinality(works) >= 2

(* ------------------- deletes and the rows they own -------------------- *)
Links ==
  Cardinality(works) + Cardinality(uses) + Cardinality(funds)
  + Cardinality(publishes) + Cardinality(mentors)

(* The faculty member with the lowest MID leads every project made here. *)
AddLedProject(limit) ==
  \/ /\ seq_pid < limit
     /\ add_project(1, "T1", 0, NULL, "Active", TRUE)
  \/ /\ pc = "add_project"
     /\ \E leader \in FirstFaculty : add_project_insert(1, leader, TRUE, FALSE)

EnterTeam(limit) ==
  \/ \E pid \in 1..limit : ProjectExists(pid) /\ update_project(1, pid, TRUE)
  \/ update_project_write(1, 5, [none |-> ""], TRUE)

AssignOne(limit) ==
  \/ _assign_team(1, 0, "", <<>>, TRUE)
  \/ /\ Links < limit
     /\ \E mid \in MidInputs : _assign_team(1, mid, "dev", <<40>>, TRUE)

(* The three statements of add_usage for an ongoing usage from today on,   *)
(* each accepted.                                                          *)
AddSimpleUsage(limit) ==
  \/ Links < limit /\ add_usage_list(1, TRUE)
  \/ \E eid \in EidInputs, mid \in MidInputs :
       add_usage_start(1, eid, mid, NULL)
  \/ add_usage_record(1, NULL, "scan", TRUE)

(* ------------------------- hours of assignment ------------------------ *)
HoursAddMember == AddSimpleMember({"Faculty"})
HoursAddProject == AddLedProject(MaxTeamProjects)
HoursEnterTeam == EnterTeam(MaxTeamProjects)

HoursAssign ==
  \/ _assign_team(1, 0, "", <<>>, TRUE)
  \/ /\ Cardinality(works) < MaxCascLinks
     /\ \E mid \in MidInputs, raw \in HoursRaw :
          _assign_team(1, mid, "dev", raw, TRUE)

NextHours == HoursAddMember \/ HoursAddProject \/ HoursEnterTeam \/ HoursAssign

SpecHours == Init /\ [][NextHours]_vars

(* C11: the hours of every WORKS row are a number from 0 to 168. *)
C11_HoursInRange ==
  \A w \in works :
    w.hours # NaN /\ w.hours >= MinHours /\ w.hours <= MaxHours

(* -------------------- ids that are not in the store ------------------- *)
NfAddMember == AddSimpleMember({"Faculty"})
NfAddProject == AddLedProject(MaxTeamProjects)

NfAddEquipment ==
  /\ seq_eid < MaxEquipment
  /\ add_equipment(1, "Scope", "Available", TRUE)

NfUpdateMember ==
  \/ \E mid \in MidInputs : update_member(1, mid, TRUE)
  \/ update_member_write(1, 1, [name |-> "Ann"], TRUE)
  \/ update_member_write(1, NULL, [none |-> ""], TRUE)

(* The second client removes rows while the first is at any prompt of its  *)
(* handlers.                                                               *)
NfRemoveMember ==
  \/ \E mid \in MidInputs : remove_member_warn(2, mid, TRUE)
  \/ \E answer \in {"y", "n"} : remove_member_answer(2, answer, TRUE)

NfUpdateProject ==
  \/ \E pid \in 1..(MaxTeamProjects + 1) : update_project(1, pid, TRUE)
  \/ \E v \in {[status |-> "Paused"], [status |-> ""]} :
       update_project_write(1, 2, v, TRUE)
  \/ update_project_write(1, NULL, [none |-> ""], TRUE)

NfRemoveProject ==
  \/ \E pid \in 1..(MaxTeamProjects + 1) : remove_project_warn(2, pid, TRUE)
  \/ \E answer \in {"y", "n"} : remove_project_answer(2, answer, TRUE)

NfUpdateEquipment ==
  \/ \E eid \in EidInputs : update_equipment(1, eid, TRUE)
  \/ \E choice \in {2, NULL} :
       \E v \in EquipmentUpdateInputs(choice) :
         update_equipment_write(1, choice, v, TRUE)

NfRemoveEquipment ==
  \/ \E eid \in EidInputs : remove_equipment_warn(2, eid, TRUE)
  \/ \E answer \in {"y", "n"} : remove_equipment_answer(2, answer, TRUE)

NextNotFound ==
  \/ NfAddMember \/ NfAddProject \/ NfAddEquipment
  \/ NfUpdateMember \/ NfRemoveMember
  \/ NfUpdateProject \/ NfRemoveProject
  \/ NfUpdateEquipment \/ NfRemoveEquipment

SpecNotFound == Init /\ [][NextNotFound]_vars

(* C12: update and remove of a member, a project or an equipment, called   *)
(* by either client with an id that is not in the store, report an error,  *)
(* leave every table as it was and return to the menu, so that the run     *)
(* issues no UPDATE and no DELETE.                                         *)
C12_NotFound ==
  [][\A client \in Clients :
       LET NotFound == /\ out'.status = "error" /\ out'.effect = "none"
                       /\ UNCHANGED <<tables, seqs>>
                       /\ At(client)' = "menu"
       IN /\ \A mid \in MidInputs :
               ~MemberExists(mid)
               /\ out'.op \in {"update_member", "remove_member"}
               /\ (\E found \in BOOLEAN :
                     \/ update_member(client, mid, found)
                     \/ remove_member_warn(client, mid, found))
               => NotFound
          /\ \A pid \in PidInputs :
               ~ProjectExists(pid)
               /\ out'.op \in {"update_project", "remove_project"}
               /\ (\E found \in BOOLEAN :
                     \/ update_project(client, pid, found)
                     \/ remove_project_warn(client, pid, found))
               => NotFound
          /\ \A eid \in EidInputs :
               ~EquipmentExists(eid)
               /\ out'.op \in {"update_equipment", "remove_equipment"}
               /\ (\E found \in BOOLEAN :
                     \/ update_equipment(client, eid, found)
                     \/ remove_equipment_warn(client, eid, found))
               => NotFound
    ]_vars

(* update_project has just refused the id of a project that was removed,   *)
(* with members and equipment in the store.                                *)
C12_Witness ==
  /\ out = Out("update_project", "error", "none")
  /\ seq_pid > 0 /\ project = {}
  /\ lab_member # {} /\ equipment # {}

(* projects and what they own *)
PdAddMember == AddSimpleMember({"Faculty"})
PdAddProject == AddLedProject(MaxProjects)
PdEnterTeam == EnterTeam(MaxProjects)
PdAssign == AssignOne(MaxLinks)

LinkFunding ==
  /\ Links < MaxLinks
  /\ \E gid \in SeedGrants, pid \in PidInputs : linkFunding(gid, pid)

RemoveProject ==
  \/ \E client \in Clients, pid \in PidInputs :
       \E found \in IF ProjectExists(pid) THEN BOOLEAN ELSE {TRUE} :
         remove_project_warn(client, pid, found)
  \/ \E client \in Clients, answer \in {"y", "n"} :
       \E ok \in IF answer = "y" THEN BOOLEAN ELSE {TRUE} :
         remove_project_answer(client, answer, ok)

NextProjectDelete ==
  \/ PdAddMember \/ PdAddProject \/ PdEnterTeam \/ PdAssign \/ LinkFunding
  \/ RemoveProject

SpecProjectDelete == Init /\ [][NextProjectDelete]_vars

(* C6: the DELETE of a confirmed remove_project, accepted, of a project    *)
(* that is in the store leaves no PROJECT, WORKS or FUNDS row with that    *)
(* project id; the rows of the other projects, the grants and the members  *)
(* are as before.                                                          *)
C6_ProjectCascade ==
  [][\A client \in Clients :
       At(client) = "remove_project" /\ ProjectExists(frame[client].id)
       /\ (\E answer \in {"y", "Y", " yes "} :
             remove_project_answer(client, answer, TRUE))
       => LET pid == frame[client].id
          IN /\ ~\E p \in project' : p.pid = pid
             /\ ~\E w \in works' : w.pid = pid
             /\ ~\E f \in funds' : f.pid = pid
             /\ {p \in project' : p.pid # pid} =
                  {p \in project : p.pid # pid}
             /\ {w \in works' : w.pid # pid} = {w \in works : w.pid # pid}
             /\ {f \in funds' : f.pid # pid} = {f \in funds : f.pid # pid}
             /\ UNCHANGED <<memberTables, grant_table>>
    ]_vars

(* A project that had link rows has just been removed, and another         *)
(* project still has its assignment and funding rows.                      *)
C6_Witness ==
  /\ out = Out("remove_project", "success", "cascade")
  /\ project # {} /\ works # {} /\ funds # {}

(* members, projects, equipment and every kind of link row *)
CascAddMember == AddSimpleMember({"Faculty"})
CascAddProject == AddLedProject(MaxTeamProjects)
CascEnterTeam == EnterTeam(MaxTeamProjects)
CascAssign == AssignOne(MaxCascLinks)

CascAddEquipment ==
  /\ seq_eid < MaxEquipment
  /\ add_equipment(1, "Scope", "Available", TRUE)

CascAddUsage == AddSimpleUsage(MaxCascLinks)

CascLinkFunding ==
  /\ Links < MaxCascLinks
  /\ \E pid \in 1..(MaxTeamProjects + 1) : linkFunding(1, pid)

AddAuthor ==
  /\ Links < MaxCascLinks
  /\ \E mid \in MidInputs : addAuthor(mid, 1)

RecordMentorship ==
  /\ Links < MaxCascLinks
  /\ \E mentor, mentee \in MidInputs : recordMentorship(mentor, mentee)

CascRemoveMember ==
  \/ \E mid \in MidInputs : remove_member_warn(1, mid, TRUE)
  \/ remove_member_answer(1, "y", TRUE)

CascRemoveProject ==
  \/ \E pid \in 1..MaxTeamProjects : remove_project_warn(1, pid, TRUE)
  \/ remove_project_answer(1, "y", TRUE)

RemoveEquipment ==
  \/ \E eid \in EidInputs : remove_equipment_warn(1, eid, TRUE)
  \/ remove_equipment_answer(1, "y", TRUE)

NextCascade ==
  \/ CascAddMember \/ CascAddProject \/ CascEnterTeam \/ CascAssign
  \/ CascAddEquipment \/ CascAddUsage \/ CascLinkFunding \/ AddAuthor
  \/ RecordMentorship \/ CascRemoveMember \/ CascRemoveProject
  \/ RemoveEquipment

SpecCascade == Init /\ [][NextCascade]_vars

(* C7: the DELETE of a confirmed remove_member, accepted, of a member that *)
(* is in the store leaves no LAB_MEMBER row and no detail, WORKS, USES,    *)
(* PUBLISHES or MENTORS row (as mentor or as mentee) with that member id.  *)
C7_MemberCascade ==
  [][\A client \in Clients :
       At(client) = "remove_member" /\ MemberExists(frame[client].id)
       /\ (\E answer \in {"y", "Y", " yes "} :
             remove_member_answer(client, answer, TRUE))
       => LET mid == frame[client].id
          IN /\ ~\E m \in lab_member' : m.mid = mid
             /\ ~\E r \in faculty' \cup student' \cup collaborator' :
                    r.mid = mid
             /\ ~\E w \in works' : w.mid = mid
             /\ ~\E u \in uses' : u.mid = mid
             /\ ~\E a \in publishes' : a.mid = mid
             /\ ~\E r \in mentors' : r.mentor = mid \/ r.mentee = mid
    ]_vars

(* A member that had link rows has just been removed; another remains. *)
C7_Witness ==
  /\ out = Out("remove_member", "success", "cascade")
  /\ lab_member # {} /\ faculty # {}

(* C8: every WORKS, FUNDS, USES, PUBLISHES and MENTORS row references rows *)
(* that exist.                                                             *)
C8_ReferentialIntegrity ==
  /\ \A w \in works : MemberExists(w.mid) /\ ProjectExists(w.pid)
  /\ \A f \in funds : GrantExists(f.gid) /\ ProjectExists(f.pid)
  /\ \A u \in uses : MemberExists(u.mid) /\ EquipmentExists(u.eid)
  /\ \A a \in publishes : MemberExists(a.mid) /\ PublicationExists(a.pubid)
  /\ \A r \in mentors : MemberExists(r.mentor) /\ MemberExists(r.mentee)

(* An equipment that had usage records has just been removed, and link     *)
(* rows of the other kinds are still there.                                *)
C8_Witness ==
  /\ out = Out("remove_equipment", "success", "cascade")
  /\ seq_eid > 0 /\ equipment = {}
  /\ works \cup funds \cup publishes \cup mentors # {}

(* ----------------------- queries on a stored state -------------------- *)
(* The program opens a store that already holds rows.  Member i of such a  *)
(* store, with its detail row:                                             *)
StoredType(i) ==
  CASE i % 3 = 1 -> "Faculty" [] i % 3 = 2 -> "Student" [] OTHER -> "Collaborator"

StoredMembers(names) ==
  {[mid |-> i, name |-> names[i], mtype |-> StoredType(i)] : i \in DOMAIN names}

StoredFaculty(ids) ==
  {[mid |-> i, dept |-> "CS"] : i \in {j \in ids : StoredType(j) = "Faculty"}}

StoredStudents(ids, majors) ==
  {[mid |-> i, sid |-> "S1", level |-> "Junior", major |-> majors[i]] :
     i \in {j \in ids : StoredType(j) = "Student"}}

StoredCollaborators(ids) ==
  {[mid |-> i, affil |-> "MIT", bio |-> ""] :
     i \in {j \in ids : StoredType(j) = "Collaborator"}}

StoredProject(pid, sdate, edate) ==
  [pid |-> pid, title |-> "T1", sdate |-> sdate, edate |-> edate,
   status |-> "Active", leader |-> 1]

(* Names alternate, so that the order of names is not the order of ids. *)
AlternateNames(n) == [i \in 1..n |-> IF i % 2 = 1 THEN "Bob" ELSE "Ann"]

(* The subsets of S with at most n elements. *)
RECURSIVE SubsetsUpTo(_, _)
SubsetsUpTo(S, n) ==
  IF n = 0 THEN {{}}
  ELSE LET smaller == SubsetsUpTo(S, n - 1)
       IN smaller \cup {T \cup {x} : T \in smaller, x \in S}

(* A store with every member, project and equipment the bounds allow and   *)
(* at most MaxStoredLinks link rows over all link tables.                  *)
InitQueries ==
  /\ today = 0
  /\ lab_member = StoredMembers(AlternateNames(MaxMembers))
  /\ faculty = StoredFaculty(1..MaxMembers)
  /\ student = StoredStudents(1..MaxMembers, [i \in 1..MaxMembers |-> "Physics"])
  /\ collaborator = StoredCollaborators(1..MaxMembers)
  /\ project = {StoredProject(p, 0, NULL) : p \in 1..MaxTeamProjects}
  /\ equipment = {[eid |-> e, name |-> "Scope", status |-> "Available"] :
                    e \in 1..MaxEquipment}
  /\ grant_table = {[gid |-> g] : g \in SeedGrants}
  /\ publication = {[pubid |-> p] : p \in SeedPublications}
  /\ \E links \in SubsetsUpTo(
          {<<"works", m, p>> : m \in 1..MaxMembers, p \in 1..MaxTeamProjects}
          \cup {<<"uses", m, e>> : m \in 1..MaxMembers, e \in 1..MaxEquipment}
          \cup {<<"funds", g, p>> : g \in SeedGrants, p \in 1..MaxTeamProjects}
          \cup {<<"publishes", m, b>> : m \in 1..MaxMembers, b \in SeedPublications}
          \cup {<<"mentors", x[1], x[2]>> :
                  x \in {y \in (1..MaxMembers) \X (1..MaxMembers) : y[1] # y[2]}},
          MaxStoredLinks) :
       /\ works = {[mid |-> l[2], pid |-> l[3], role |-> "dev", hours |-> 40] :
                     l \in {x \in links : x[1] = "works"}}
       /\ uses = {[mid |-> l[2], eid |-> l[3], sdate |-> 0, edate |-> NULL,
                   purpose |-> "scan"] : l \in {x \in links : x[1] = "uses"}}
       /\ funds = {[gid |-> l[2], pid |-> l[3]] :
                     l \in {x \in links : x[1] = "funds"}}
       /\ publishes = {[mid |-> l[2], pubid |-> l[3]] :
                         l \in {x \in links : x[1] = "publishes"}}
       /\ mentors = {[mentor |-> l[2], mentee |-> l[3]] :
                       l \in {x \in links : x[1] = "mentors"}}
  /\ seq_mid = MaxMembers /\ seq_pid = MaxTeamProjects /\ seq_eid = MaxEquipment
  /\ pc = "menu" /\ frame = NoFrames /\ peer_pc = "menu"
  /\ connection = None
  /\ out = Out("start", "none", "none")

ListAllMembers == \E ok \in BOOLEAN : list_all_members(ok)

SearchMembers ==
  \/ search_members(NULL, "", TRUE)
  \/ \E term \in {"an", "%", ""} : search_members(1, term, TRUE)
  \/ \E term \in {"Student", ""} : search_members(2, term, TRUE)
  \/ search_members(2, "Faculty", FALSE)
  \/ \E term \in {"%", "zz"} : search_members(3, term, TRUE)

GetMemberDetails ==
  \/ \E mid \in MidInputs \cup {NULL} : get_member_details(1, mid, TRUE)
  \/ get_member_details(1, 1, FALSE)

GetMemberDetailsProjects ==
  \E ok2 \in BOOLEAN : get_member_details_projects(1, ok2)

ListAllProjects == list_all_projects(TRUE)

GetProjectStatus ==
  \/ \E pid \in 1..(MaxTeamProjects + 1) \cup {NULL} :
       get_project_status(1, pid, TRUE)
  \/ get_project_status(1, 1, FALSE)

GetProjectStatusTeam == \E ok2 \in BOOLEAN : get_project_status_team(1, ok2)

GetProjectStatusFunding ==
  \E ok3 \in BOOLEAN : get_project_status_funding(1, ok3)

ShowMembersByGrant == \E ok \in BOOLEAN : show_members_by_grant(1, ok)

ShowMembersByGrantMembers ==
  \/ \E gid \in {1, NULL} : show_members_by_grant_members(1, gid, TRUE)
  \/ show_members_by_grant_members(1, 1, FALSE)

ShowMentorshipByProject ==
  \E ok \in BOOLEAN : show_mentorship_by_project(1, ok)

ShowMentorshipByProjectRows ==
  \/ \E pid \in {1, NULL} : show_mentorship_by_project_rows(1, pid, TRUE)
  \/ show_mentorship_by_project_rows(1, 1, FALSE)

ListAllEquipment == \E ok \in BOOLEAN : list_all_equipment(ok)

GetEquipmentStatus ==
  \/ \E eid \in EidInputs \cup {NULL} : get_equipment_status(1, eid, TRUE)
  \/ get_equipment_status(1, 1, FALSE)

GetEquipmentStatusUsers ==
  \E ok2 \in BOOLEAN : get_equipment_status_users(1, ok2)

ShowCurrentUsersAndProjects ==
  \E eid \in EidInputs : show_current_users_and_projects(eid, TRUE)

MemberWithMostPublications ==
  \E ok \in BOOLEAN : member_with_most_publications(ok)

AvgPublicationsByMajor == \E ok \in BOOLEAN : avg_publications_by_major(ok)

FundedActiveProjectsInPeriod ==
  \/ funded_active_projects_in_period(1, NULL, NULL, TRUE)
  \/ \E ok \in BOOLEAN : funded_active_projects_in_period(1, 0, 0, ok)

FundedActiveProjectsInPeriodDetails ==
  \/ \E answer \in {"y", "n"} :
       funded_active_projects_in_period_details(1, answer, TRUE)
  \/ funded_active_projects_in_period_details(1, "y", FALSE)

ProlificMembersByGrant == \E ok \in BOOLEAN : prolific_members_by_grant(1, ok)

ProlificMembersByGrantRows ==
  \/ \E gid \in {1, NULL} : prolific_members_by_grant_rows(1, gid, TRUE)
  \/ prolific_members_by_grant_rows(1, 1, FALSE)

ListAllPublications == list_all_publications(TRUE)
ListAllGrants == list_all_grants(TRUE)

NextQueries ==
  \/ ListAllMembers \/ SearchMembers
  \/ GetMemberDetails \/ GetMemberDetailsProjects
  \/ ListAllProjects
  \/ GetProjectStatus \/ GetProjectStatusTeam \/ GetProjectStatusFunding
  \/ ShowMembersByGrant \/ ShowMembersByGrantMembers
  \/ ShowMentorshipByProject \/ ShowMentorshipByProjectRows
  \/ ListAllEquipment
  \/ GetEquipmentStatus \/ GetEquipmentStatusUsers
  \/ ShowCurrentUsersAndProjects
  \/ MemberWithMostPublications \/ AvgPublicationsByMajor
  \/ FundedActiveProjectsInPeriod \/ FundedActiveProjectsInPeriodDetails
  \/ ProlificMembersByGrant \/ ProlificMembersByGrantRows
  \/ ListAllPublications \/ ListAllGrants

SpecQueries == InitQueries /\ [][NextQueries]_vars

(* C15: every roster, search, detail view and report leaves every table    *)
(* and every id counter as it was.                                         *)
C15_QueriesReadOnly ==
  [][out'.op \in {"list_all_members", "search_members", "get_member_details",
                  "list_all_projects", "get_project_status",
                  "show_members_by_grant", "show_mentorship_by_project",
                  "list_all_equipment", "get_equipment_status",
                  "show_current_users_and_projects",
                  "member_with_most_publications", "avg_publications_by_major",
                  "funded_active_projects_in_period",
                  "prolific_members_by_grant", "list_all_publications",
                  "list_all_grants"}
       => UNCHANGED <<tables, seqs>>
    ]_vars

(* The equipment roster has just listed an equipment that has a current    *)
(* user.                                                                   *)
C15_Witness ==
  /\ out.op = "list_all_equipment" /\ out.status = "success"
  /\ \E r \in out.rows : r.current_users > 0 /\ ActiveUses(r.eid) # {}

(* ------------------------- most-published report ---------------------- *)
AuthorNames == {"Ann", "Bob", "Cy"}

(* Member i is an author of the publications 1..counts[i]. *)
StoredAuthorship(counts) ==
  {[mid |-> r[1], pubid |-> r[2]] :
     r \in {x \in (DOMAIN counts) \X (1..MaxPubs) : x[2] <= counts[x[1]]}}

(* A store of up to MaxAuthors members with any names and any number of    *)
(* publications each.                                                      *)
InitMostPublished ==
  /\ today = 0
  /\ \E n \in 0..MaxAuthors :
       \E names \in [1..n -> AuthorNames], counts \in [1..n -> 0..MaxPubs] :
         /\ lab_member = StoredMembers(names)
         /\ faculty = StoredFaculty(1..n)
         /\ student = StoredStudents(1..n, [i \in 1..n |-> "Physics"])
         /\ collaborator = StoredCollaborators(1..n)
         /\ publishes = StoredAuthorship(counts)
         /\ seq_mid = n
  /\ publication = {[pubid |-> b] : b \in 1..MaxPubs}
  /\ project = {} /\ works = {} /\ equipment = {} /\ uses = {}
  /\ grant_table = {[gid |-> g] : g \in SeedGrants}
  /\ funds = {} /\ mentors = {}
  /\ seq_pid = 0 /\ seq_eid = 0
  /\ pc = "menu" /\ frame = NoFrames /\ peer_pc = "menu"
  /\ connection = None
  /\ out = Out("start", "none", "none")

NextMostPublished == MemberWithMostPublications

SpecMostPublished == InitMostPublished /\ [][NextMostPublished]_vars

AuthorshipCount(mid) == Cardinality({p \in publishes : p.mid = mid})

(* C16: the most-published report lists each member whose authorship count *)
(* is the maximum over all members exactly once, with that count, lists no *)
(* other member, and lists them in the order of their names.               *)
C16_MostPublished ==
  (out.op = "member_with_most_publications" /\ out.status = "success") =>
    LET rows == out.rows
        top == {m \in lab_member :
                  \A q \in lab_member :
                    AuthorshipCount(q.mid) <= AuthorshipCount(m.mid)}
    IN /\ {rows[i].mid : i \in DOMAIN rows} = {m.mid : m \in top}
       /\ Len(rows) = Cardinality(top)
       /\ \A i \in DOMAIN rows :
            /\ rows[i].pub_count = AuthorshipCount(rows[i].mid)
            /\ rows[i].name = MemberRow(rows[i].mid).name
       /\ \A i, j \in DOMAIN rows :
            i < j => NameRank(rows[i].name) <= NameRank(rows[j].name)

(* Ann and Bob have 3 publications each and Cy has 1: the report has       *)
(* listed Ann, then Bob.                                                   *)
C16_Witness ==
  /\ out.op = "member_with_most_publications" /\ out.status = "success"
  /\ Cardinality(lab_member) = 3
  /\ \E a, b, c \in lab_member :
       /\ a.name = "Ann" /\ b.name = "Bob" /\ c.name = "Cy"
       /\ AuthorshipCount(a.mid) = 3 /\ AuthorshipCount(b.mid) = 3
       /\ AuthorshipCount(c.mid) = 1
       /\ Len(out.rows) = 2
       /\ out.rows[1].mid = a.mid /\ out.rows[2].mid = b.mid

(* --------------------- funded active projects report ------------------ *)
PeriodDates == 0..MaxPeriodDate

(* Project pid is funded by the grants 1..grants[pid]. *)
StoredFunding(grants) ==
  {[gid |-> r[1], pid |-> r[2]] :
     r \in {x \in SeedGrants \X (DOMAIN grants) : x[1] <= grants[x[2]]}}

(* A store of up to MaxFunded projects.  Project 1 has any start date, any *)
(* or no end date and any number of grants; the others are open-ended;     *)
(* project 2 starts on the first or the last date and has one grant or     *)
(* none, the projects after it start on the first date and have one grant. *)
InitFundedActive ==
  /\ today = 0
  /\ lab_member = StoredMembers(AlternateNames(1))
  /\ faculty = StoredFaculty({1})
  /\ student = {} /\ collaborator = {}
  /\ \E n \in 1..MaxFunded :
       \E sdate \in PeriodDates, edate \in PeriodDates \cup {NULL},
          later \in {0, MaxPeriodDate},
          first \in 0..Cardinality(SeedGrants), second \in {0, 1} :
         /\ project = {StoredProject(1, sdate, edate)}
                      \cup {[StoredProject(p, IF p = 2 THEN later ELSE 0, NULL)
                               EXCEPT !.title = "T2"] : p \in 2..n}
         /\ funds = StoredFunding([p \in 1..n |->
                                     IF p = 1 THEN first
                                     ELSE IF p = 2 THEN second ELSE 1])
         /\ seq_pid = n
  /\ grant_table = {[gid |-> g] : g \in SeedGrants}
  /\ publication = {[pubid |-> b] : b \in SeedPublications}
  /\ works = {} /\ equipment = {} /\ uses = {}
  /\ publishes = {} /\ mentors = {}
  /\ seq_mid = 1 /\ seq_eid = 0
  /\ pc = "menu" /\ frame = NoFrames /\ peer_pc = "menu"
  /\ connection = None
  /\ out = Out("start", "none", "none")

FundedActiveInPeriod ==
  \/ \E start \in {0, NULL} :
       funded_active_projects_in_period(1, start, NULL, TRUE)
  \/ funded_active_projects_in_period(1, 0, 0, FALSE)
  \/ \E start, end \in PeriodDates :
       funded_active_projects_in_period(1, start, end, TRUE)

FundedActiveDetails ==
  \/ \E answer \in {"y", "n"} :
       funded_active_projects_in_period_details(1, answer, TRUE)
  \/ funded_active_projects_in_period_details(1, "y", FALSE)

(* The second client removes project 1 while the first reads. *)
FundedRemoveProject ==
  \/ remove_project_warn(2, 1, TRUE)
  \/ remove_project_answer(2, "y", TRUE)

NextFundedActive ==
  FundedActiveInPeriod \/ FundedActiveDetails \/ FundedRemoveProject

SpecFundedActive == InitFundedActive /\ [][NextFundedActive]_vars

(* C17: the count the report prints for a period is the number of distinct *)
(* projects that, in the store its SELECT reads, have a funding link,      *)
(* start on or before the end of the period and have no end date or end on *)
(* or after the start of the period.                                       *)
C17_FundedActiveCount ==
  [][(/\ pc = "menu"
      /\ out'.op = "funded_active_projects_in_period"
      /\ out'.status = "success") =>
       \A r \in out'.rows :
         r.count = Cardinality({p \in project :
                                  /\ \E f \in funds : f.pid = p.pid
                                  /\ p.sdate <= r.end
                                  /\ (p.edate = NULL \/ p.edate >= r.start)})
    ]_vars

(* A project that runs from date 0 to date 2 and is funded by two grants   *)
(* and a second, unfunded project: the count for the period [1, 4] is 1,   *)
(* and the handler waits at "Show details?".                               *)
C17_Witness ==
  /\ out.op = "funded_active_projects_in_period" /\ out.status = "success"
  /\ pc = "funded_active_projects_in_period" /\ peer_pc = "menu"
  /\ \E r \in out.rows : r.start = 1 /\ r.end = 4 /\ r.count = 1
  /\ Cardinality(project) = 2
  /\ \E p \in project :
       /\ p.sdate = 0 /\ p.edate = 2
       /\ Cardinality({f \in funds : f.pid = p.pid}) = 2
       /\ \A f \in funds : f.pid = p.pid

(* ----------------------- top-3 prolific members report ---------------- *)
(* The assignments of a member: to no project, to project 1, to project 2  *)
(* or to both.                                                             *)
TeamChoices == SUBSET {1, 2}

(* A store of MaxProlific members and two projects.  Project 1 is funded   *)
(* by grant 1 and project 2 by any of the grants; members 1 and 2 have any *)
(* assignments, the others are assigned to project 1; each member has up   *)
(* to MaxProlificPubs publications.                                        *)
InitProlific ==
  /\ today = 0
  /\ lab_member = StoredMembers(AlternateNames(MaxProlific))
  /\ faculty = StoredFaculty(1..MaxProlific)
  /\ student = StoredStudents(1..MaxProlific,
                              [i \in 1..MaxProlific |-> "Physics"])
  /\ collaborator = StoredCollaborators(1..MaxProlific)
  /\ project = {StoredProject(1, 0, NULL), StoredProject(2, 0, NULL)}
  /\ \E teams \in [{1, 2} -> TeamChoices] :
       works = {w \in [mid : 1..MaxProlific, pid : {1, 2}, role : {"dev"},
                       hours : {40}] :
                  IF w.mid \in {1, 2} THEN w.pid \in teams[w.mid]
                  ELSE w.pid = 1}
  /\ \E second \in SUBSET SeedGrants :
       funds = {[gid |-> 1, pid |-> 1]} \cup {[gid |-> g, pid |-> 2] : g \in second}
  /\ \E counts \in [1..MaxProlific -> 0..MaxProlificPubs] :
       publishes = StoredAuthorship(counts)
  /\ grant_table = {[gid |-> g] : g \in SeedGrants}
  /\ publication = {[pubid |-> b] : b \in 1..MaxPubs}
  /\ equipment = {} /\ uses = {} /\ mentors = {}
  /\ seq_mid = MaxProlific /\ seq_pid = 2 /\ seq_eid = 0
  /\ pc = "menu" /\ frame = NoFrames /\ peer_pc = "menu"
  /\ connection = None
  /\ out = Out("start", "none", "none")

ProlificInputs == SeedGrants \cup {Cardinality(SeedGrants) + 1, NULL}

ProlificByGrant ==
  \/ \E ok \in BOOLEAN : prolific_members_by_grant(1, ok)
  \/ prolific_members_by_grant(2, TRUE)

ProlificByGrantRows ==
  \/ prolific_members_by_grant_rows(1, 1, FALSE)
  \/ \E gid \in ProlificInputs : prolific_members_by_grant_rows(1, gid, TRUE)
  \/ prolific_members_by_grant_rows(2, 1, TRUE)

NextProlific == ProlificByGrant \/ ProlificByGrantRows

SpecProlific == InitProlific /\ [][NextProlific]_vars

(* The members with an assignment to a project funded by the grant. *)
Eligible(gid) ==
  {m.mid : m \in {x \in lab_member :
                    \E w \in works, f \in funds :
                      w.mid = x.mid /\ w.pid = f.pid /\ f.gid = gid}}

(* C18: the rows the top-3 report lists for a grant are at most 3, are     *)
(* distinct members assigned to a project the grant funds, carry the       *)
(* member's number of distinct publications, come in non-increasing order  *)
(* of that number, and no eligible member left out has more publications   *)
(* than the last row.                                                      *)
C18_TopThree ==
  (out.op = "prolific_members_by_grant" /\ out.status = "success") =>
    LET rows == out.rows
        listed == {rows[i].mid : i \in DOMAIN rows}
    IN /\ Len(rows) <= 3
       /\ \A i, j \in DOMAIN rows : i # j => rows[i].mid # rows[j].mid
       /\ listed \subseteq Eligible(out.grant)
       /\ \A i \in DOMAIN rows :
            rows[i].pub_count = AuthorshipCount(rows[i].mid)
       /\ \A i, j \in DOMAIN rows :
            i < j => rows[i].pub_count >= rows[j].pub_count
       /\ \A m \in Eligible(out.grant) \ listed :
            AuthorshipCount(m) <= rows[Len(rows)].pub_count

(* Four members are eligible for grant 1, which funds both projects; one   *)
(* of them is assigned to both and is listed with its one publication; the *)
(* report has three rows.                                                  *)
C18_Witness ==
  /\ out.op = "prolific_members_by_grant" /\ out.status = "success"
  /\ out.grant = 1 /\ Len(out.rows) = 3
  /\ \A f \in funds : f.gid = 1
  /\ Cardinality(funds) = 2
  /\ Cardinality(Eligible(1)) = 4
  /\ \E i \in DOMAIN out.rows :
       /\ Cardinality({w \in works : w.mid = out.rows[i].mid}) = 2
       /\ out.rows[i].pub_count = 1
  /\ \E m \in Eligible(1) : AuthorshipCount(m) = 0

(* C24: the top-3 report is a function of the stored state and the grant   *)
(* id: when the report is run twice in a row for the same grant, with      *)
(* every table as it was, the second run lists the same set of members as  *)
(* the first, also when members share the count of the third row.          *)
C24_TopThreeDeterministic ==
  [][(/\ out.op = "prolific_members_by_grant" /\ out.status = "success"
      /\ out'.op = "prolific_members_by_grant" /\ out'.status = "success"
      /\ out'.grant = out.grant
      /\ UNCHANGED tables) =>
       {out'.rows[i].mid : i \in DOMAIN out'.rows} =
         {out.rows[i].mid : i \in DOMAIN out.rows}]_vars

(* -------------------- average publications by major ------------------- *)
(* A store of up to MaxStudents students: the first physics of them study  *)
(* Physics and the others Math; the first (or the last) authors of them    *)
(* are authors of the publications 1..each, the others of none.            *)
InitAvgByMajor ==
  /\ today = 0
  /\ \E n \in 0..MaxStudents :
       \E physics \in 0..n, authors \in 0..n, each \in 1..MaxPubs,
          first \in BOOLEAN :
         /\ lab_member = {[mid |-> i, name |-> "Ann", mtype |-> "Student"] :
                            i \in 1..n}
         /\ student = {[mid |-> i, sid |-> "S1", level |-> "Junior",
                        major |-> IF i <= physics THEN "Physics" ELSE "Math"] :
                         i \in 1..n}
         /\ publishes = StoredAuthorship(
              [i \in 1..n |->
                 IF (first /\ i <= authors) \/ (~first /\ i > n - authors)
                   THEN each ELSE 0])
         /\ seq_mid = n
  /\ faculty = {} /\ collaborator = {}
  /\ publication = {[pubid |-> b] : b \in 1..MaxPubs}
  /\ project = {} /\ works = {} /\ equipment = {} /\ uses = {}
  /\ grant_table = {[gid |-> g] : g \in SeedGrants}
  /\ funds = {} /\ mentors = {}
  /\ seq_pid = 0 /\ seq_eid = 0
  /\ pc = "menu" /\ frame = NoFrames /\ peer_pc = "menu"
  /\ connection = None
  /\ out = Out("start", "none", "none")

NextAvgByMajor == AvgPublicationsByMajor

SpecAvgByMajor == InitAvgByMajor /\ [][NextAvgByMajor]_vars

StudentsOf(major) == {s.mid : s \in {x \in student : x.major = major}}

(* C19: the report has one row per major that has a student and no other   *)
(* row; the row gives the number of students of the major, the number of   *)
(* publications of those students added up over the students, and, in      *)
(* hundredths, the quotient of the two rounded to the nearest hundredth.    *)
C19_AvgByMajor ==
  (out.op = "avg_publications_by_major" /\ out.status = "success") =>
    LET rows == out.rows
    IN /\ {rows[i].major : i \in DOMAIN rows} = {s.major : s \in student}
       /\ Len(rows) = Cardinality({s.major : s \in student})
       /\ \A i \in DOMAIN rows :
            LET r == rows[i]
                total == Cardinality({p \in publishes :
                                        p.mid \in StudentsOf(r.major)})
            IN /\ r.students = Cardinality(StudentsOf(r.major))
               /\ r.students > 0
               /\ r.total_pubs = total
               /\ 2 * r.students * r.avg_pubs <= 200 * total + r.students
               /\ 2 * r.students * r.avg_pubs >= 200 * total - r.students

(* Physics has two students, one with 2 publications and one with none:    *)
(* its row reads 2 students, 2 publications, average 1.00.                 *)
C19_Witness ==
  /\ out.op = "avg_publications_by_major" /\ out.status = "success"
  /\ Cardinality(StudentsOf("Physics")) = 2
  /\ \E a, b \in StudentsOf("Physics") :
       AuthorshipCount(a) = 2 /\ AuthorshipCount(b) = 0
  /\ \E i \in DOMAIN out.rows :
       out.rows[i] = [major |-> "Physics", students |-> 2, total_pubs |-> 2,
                      avg_pubs |-> 100]

(* ------------------------ mentorship within a project ----------------- *)
(* A store of MaxMentored members and two projects, with any assignments   *)
(* and up to MaxStoredLinks mentorships between distinct members.          *)
InitMentorship ==
  /\ today = 0
  /\ lab_member = StoredMembers(AlternateNames(MaxMentored))
  /\ faculty = StoredFaculty(1..MaxMentored)
  /\ student = StoredStudents(1..MaxMentored,
                              [i \in 1..MaxMentored |-> "Physics"])
  /\ collaborator = StoredCollaborators(1..MaxMentored)
  /\ project = {StoredProject(1, 0, NULL), StoredProject(2, 0, NULL)}
  /\ works \in SUBSET [mid : 1..MaxMentored, pid : {1, 2}, role : {"dev"},
                       hours : {40}]
  /\ mentors \in SubsetsUpTo(
       {r \in [mentor : 1..MaxMentored, mentee : 1..MaxMentored] :
          r.mentor # r.mentee},
       MaxStoredLinks)
  /\ grant_table = {[gid |-> g] : g \in SeedGrants}
  /\ publication = {[pubid |-> b] : b \in SeedPublications}
  /\ equipment = {} /\ uses = {} /\ funds = {} /\ publishes = {}
  /\ seq_mid = MaxMentored /\ seq_pid = 2 /\ seq_eid = 0
  /\ pc = "menu" /\ frame = NoFrames /\ peer_pc = "menu"
  /\ connection = None
  /\ out = Out("start", "none", "none")

MentorshipByProject ==
  \E ok \in BOOLEAN : show_mentorship_by_project(1, ok)

MentorshipByProjectRows ==
  \/ show_mentorship_by_project_rows(1, 1, FALSE)
  \/ \E pid \in {1, 2, 3, NULL} : show_mentorship_by_project_rows(1, pid, TRUE)

NextMentorship == MentorshipByProject \/ MentorshipByProjectRows

SpecMentorship == InitMentorship /\ [][NextMentorship]_vars

Assigned(mid, pid) == \E w \in works : w.mid = mid /\ w.pid = pid

(* C20: the lines of the mentorship report of a project are, line for      *)
(* line, the mentorships whose mentor and mentee both have an assignment   *)
(* to that project: every such mentorship has its line, and there are as   *)
(* many equal lines as such mentorships that print alike.                  *)
C20_MentorshipInProject ==
  (out.op = "show_mentorship_by_project" /\ out.status = "success") =>
    LET rows == out.rows
        both == {r \in mentors : /\ Assigned(r.mentor, out.project)
                                 /\ Assigned(r.mentee, out.project)}
    IN /\ Len(rows) = Cardinality(both)
       /\ \A r \in both : \E i \in DOMAIN rows : rows[i] = MentorshipLine(r)
       /\ \A i \in DOMAIN rows :
            Cardinality({j \in DOMAIN rows : rows[j] = rows[i]})
              = Cardinality({r \in both : MentorshipLine(r) = rows[i]})

(* Of two mentorships, one has mentor and mentee on project 1 and the      *)
(* other has only its mentor there, its mentee being on project 2: the     *)
(* report of project 1 has the one line.                                   *)
C20_Witness ==
  /\ out.op = "show_mentorship_by_project" /\ out.status = "success"
  /\ out.project = 1 /\ Len(out.rows) = 1
  /\ \E r, q \in mentors :
       /\ mentors = {r, q} /\ r # q
       /\ Assigned(r.mentor, 1) /\ Assigned(r.mentee, 1)
       /\ Assigned(q.mentor, 1) /\ ~Assigned(q.mentee, 1)
       /\ Assigned(q.mentee, 2)
       /\ out.rows[1] = MentorshipLine(r)

(* ----------------------- deletes and their warning -------------------- *)
WarnAddMember == AddSimpleMember({"Faculty"})
WarnAddProject == AddLedProject(MaxTeamProjects)
WarnAddEquipment == CascAddEquipment
WarnAddUsage == CascAddUsage
WarnLinkFunding == CascLinkFunding
WarnAddAuthor == AddAuthor

RemoveMemberWarn ==
  \E mid \in MidInputs, found \in BOOLEAN : remove_member_warn(1, mid, found)

RemoveMemberAnswer ==
  \E answer \in Answers, ok \in BOOLEAN : remove_member_answer(1, answer, ok)

RemoveProjectWarn ==
  \E pid \in 1..(MaxTeamProjects + 1), found \in BOOLEAN :
    remove_project_warn(1, pid, found)

RemoveProjectAnswer ==
  \E answer \in Answers, ok \in BOOLEAN : remove_project_answer(1, answer, ok)

RemoveEquipmentWarn ==
  \E eid \in EidInputs, found \in BOOLEAN :
    remove_equipment_warn(1, eid, found)

RemoveEquipmentAnswer ==
  \E answer \in Answers, ok \in BOOLEAN :
    remove_equipment_answer(1, answer, ok)

NextWarn ==
  \/ WarnAddMember \/ WarnAddProject \/ WarnAddEquipment \/ WarnAddUsage
  \/ WarnLinkFunding \/ WarnAddAuthor
  \/ RemoveMemberWarn \/ RemoveMemberAnswer
  \/ RemoveProjectWarn \/ RemoveProjectAnswer
  \/ RemoveEquipmentWarn \/ RemoveEquipmentAnswer

SpecWarn == Init /\ [][NextWarn]_vars

(* A member, project or equipment row that is in the store before the     *)
(* step is not in it after the step.                                       *)
RowDeleted ==
  \/ \E m \in lab_member : \A n \in lab_member' : n.mid # m.mid
  \/ \E p \in project : \A q \in project' : q.pid # p.pid
  \/ \E e \in equipment : \A f \in equipment' : f.eid # e.eid

(* C21: a step of the client that deletes a member, project or equipment   *)
(* row starts where the warning of that delete is the last thing the       *)
(* client printed and reads an answer that confirms; a step that reads any *)
(* other answer, or the end of input, changes no table.                    *)
C21_DeleteAfterWarning ==
  [][/\ RowDeleted =>
          /\ out.status = "warning" /\ out.op = out'.op
          /\ pc = out.op
          /\ \E answer \in {"y", "Y", " yes "} :
               \/ remove_member_answer(1, answer, TRUE)
               \/ remove_project_answer(1, answer, TRUE)
               \/ remove_equipment_answer(1, answer, TRUE)
     /\ \A answer \in {a \in Answers : a \notin {"y", "Y", " yes "}} :
          (\/ remove_member_answer(1, answer, TRUE)
           \/ remove_project_answer(1, answer, TRUE)
           \/ remove_equipment_answer(1, answer, TRUE))
          => UNCHANGED <<tables, seqs>>
    ]_vars

(* A project that had a funding row has just been deleted after its        *)
(* warning; a member and a usage of an equipment are still in the store.   *)
C21_Witness ==
  /\ out = Out("remove_project", "success", "cascade")
  /\ pc = "menu" /\ seq_pid > 0 /\ project = {} /\ funds = {}
  /\ lab_member # {} /\ uses # {}

(* ---------------------- two clients recording usage ------------------- *)
RaceAddMember == AddSimpleMember({"Student"})
RaceAddEquipment == CascAddEquipment

RaceList == \E client \in Clients : add_usage_list(client, TRUE)

(* Both clients record ongoing usage of equipment 1, or of an equipment    *)
(* that does not exist; the store is filled up to one record past the      *)
(* limit.                                                                  *)
RaceStart ==
  \E client \in Clients :
    \/ add_usage_start(client, NULL, NULL, NULL)
    \/ \E eid \in {1, MaxEquipment + 1}, mid \in MidInputs, sdate \in Dates :
         add_usage_start(client, eid, mid, sdate)

RaceRecord ==
  \E client \in Clients :
    \/ add_usage_record(client, NULL, "", TRUE)
    \/ /\ Cardinality(uses) <= UsageCapacity
       /\ \E ok \in BOOLEAN : add_usage_record(client, NULL, "scan", ok)

NextRace ==
  RaceAddMember \/ RaceAddEquipment \/ RaceList \/ RaceStart \/ RaceRecord

SpecRace == Init /\ [][NextRace]_vars

(* C22: the INSERT of either client that the storage accepts adds its     *)
(* record, whatever the number of active records of the equipment and      *)
(* wherever the other client is in its own add_usage: two recordings of    *)
(* usage of one equipment that interleave both commit.                     *)
C22_UsageNotSerialized ==
  [][\A client \in Clients :
       At(client) = "add_usage_record" /\ out'.op = "add_usage"
       /\ frame[client].eid = 1
       /\ UsesInsertOk(frame[client].mid, 1, frame[client].sdate)
       /\ add_usage_record(client, NULL, "scan", TRUE)
       => /\ uses' = uses \cup
               {[mid |-> frame[client].mid, eid |-> 1,
                 sdate |-> frame[client].sdate, edate |-> NULL,
                 purpose |-> "scan"]}
          /\ out'.status = "success"
    ]_vars

(* Equipment 1 has more than 3 active usage records, the last of them      *)
(* recorded by a client while the other client was inside add_usage.       *)
C22_Witness ==
  /\ Cardinality(ActiveUses(1)) > UsageCapacity
  /\ out = Out("add_usage", "success", "insert")
  /\ pc # peer_pc

(* ------------------- the calls through QueryExecutor ------------------ *)
ExecutorEnter ==
  \E method \in ExecutorMethods, ok \in BOOLEAN :
    DatabaseConnection_enter(method, ok)

ExecutorBody ==
  \E method \in ExecutorMethods :
    \E stmt \in Statements(method), raises \in BOOLEAN :
      /\ stmt.kind = "insert" => seq_eid < MaxEquipment
      /\ execute_body(method, stmt, raises)

ExecutorExit == \E fails \in BOOLEAN : DatabaseConnection_exit(fails)

NextExecutor == ExecutorEnter \/ ExecutorBody \/ ExecutorExit

SpecExecutor == Init /\ [][NextExecutor]_vars

(* C23: every call through QueryExecutor that got its connection ends it   *)
(* with exactly one commit() and no rollback() when the statement raised   *)
(* nothing, with exactly one rollback() and no commit() when it raised,    *)
(* and then closes it; a call that met a storage error returns False and   *)
(* leaves every table as it was.                                           *)
C23_OneTransactionPerCall ==
  [][(pc' = "menu" /\ out'.op \in ExecutorMethods) =>
       /\ out'.status = "returned"
       /\ ~out'.ok => UNCHANGED tables
       /\ connection'.raised => ~out'.ok
       /\ pc = "__exit__" =>
            /\ connection'.commits = (IF connection.raised THEN 0 ELSE 1)
            /\ connection'.rollbacks = (IF connection.raised THEN 1 ELSE 0)
            /\ connection'.closes = 1
            /\ connection'.state = "closed"]_vars

(* ------------------------ usage of retired equipment ------------------ *)
RetiredAddMember == AddSimpleMember({"Student"})

RetiredAddEquipment ==
  /\ seq_eid < MaxEquipment
  /\ \E status \in EStatuses : add_equipment(1, "Scope", status, TRUE)

RetiredUpdateEquipment ==
  \/ \E eid \in EidInputs : update_equipment(1, eid, TRUE)
  \/ \E status \in EStatuses :
       update_equipment_write(1, 3, [status |-> status], TRUE)

RetiredList == \E ok \in BOOLEAN : add_usage_list(1, ok)

RetiredStart ==
  \/ add_usage_start(1, NULL, NULL, NULL)
  \/ \E eid \in EidInputs, mid \in MidInputs, sdate \in Dates :
       add_usage_start(1, eid, mid, sdate)

RetiredRecord ==
  \/ add_usage_record(1, NULL, "", TRUE)
  \/ /\ Cardinality(uses) < MaxLinks
     /\ \E ok \in BOOLEAN : add_usage_record(1, NULL, "scan", ok)

NextRetired ==
  \/ RetiredAddMember \/ RetiredAddEquipment \/ RetiredUpdateEquipment
  \/ RetiredList \/ RetiredStart \/ RetiredRecord

SpecRetired == Init /\ [][NextRetired]_vars

(* C25: every usage record that add_usage creates is for equipment that    *)
(* is not Retired when the record is made, that is, for equipment among    *)
(* the rows the handler would select for its listing then.                 *)
C25_NoUsageOfRetired ==
  [][\A client \in Clients :
       At(client) = "add_usage_record" /\ out'.op = "add_usage"
       /\ (\E ok \in BOOLEAN : add_usage_record(client, NULL, "scan", ok))
       => \A u \in uses' \ uses :
            \E e \in OfferedEquipment : e.eid = u.eid]_vars

(* ------------------------ projects and leaders ------------------------ *)
ProjAddMember == AddSimpleMember({"Faculty", "Student"})

ProjAddProject ==
  /\ seq_pid < MaxProjects
  /\ \/ add_project(1, "", NULL, NULL, "", TRUE)
     \/ \E sdate \in Dates, edate \in Dates \cup {NULL}, found \in BOOLEAN :
          add_project(1, "T1", sdate, edate, "Active", found)

ProjAddProjectInsert ==
  \E leader \in MidInputs \cup {NULL}, ok \in BOOLEAN :
    add_project_insert(1, leader, ok, FALSE)

ProjUpdateProject ==
  \E pid \in PidInputs, found \in BOOLEAN : update_project(1, pid, found)

ProjUpdateProjectWrite ==
  \E choice \in {1, 2, 3, 4, NULL}, ok \in BOOLEAN :
    \E v \in ProjectUpdateInputs(choice) :
      update_project_write(1, choice, v, ok)

ProjUpdateProjectLeader ==
  \E leader \in MidInputs \cup {NULL}, ok \in BOOLEAN :
    update_project_leader(1, leader, ok)

NextProject ==
  \/ ProjAddMember \/ ProjAddProject \/ ProjAddProjectInsert
  \/ ProjUpdateProject \/ ProjUpdateProjectWrite \/ ProjUpdateProjectLeader

SpecProject == Init /\ [][NextProject]_vars

(* C9: every project's leader is an existing member whose MType is         *)
(* Faculty.                                                                *)
C9_LeaderIsFaculty ==
  \A p \in project :
    \E m \in lab_member : m.mid = p.leader /\ m.mtype = "Faculty"

(* C10: every project with an end date has EDate >= SDate. *)
C10_EndNotBeforeStart ==
  \A p \in project : p.edate # NULL => p.edate >= p.sdate
====
